---- MODULE Spec2Model ----
(***************************************************************************)
(* The ONCE 3D-detection evaluation server                                 *)
(* (pcdet/datasets/once/once_eval/evaluation.py): class/difficulty         *)
(* filtering, greedy matching, score-threshold selection, confusion        *)
(* counting, precision/recall envelope and AP integration.                 *)
(*                                                                         *)
(* Numbers.  Indices are 1-based (the source's index k is k+1 here) and    *)
(* the "no detection" index stays -1.  A confidence score is an integer    *)
(* (only its order matters to the code).  An IoU is held in units of       *)
(* 1/IouScale.  A float that is the result of a division (precision,       *)
(* recall, AP) is an exact fraction [n, d] in lowest terms; 0/0, which     *)
(* numpy evaluates to nan, is the fraction with d = 0.  Rounding of the    *)
(* floats is not modelled.                                                 *)
(***************************************************************************)
EXTENDS Integers, Sequences, FiniteSets, TLC

\* ------------------------------------------------------------- bounds
MaxBoxes == 4       \* boxes of one matching call: num_gt + num_pred
MaxFilterBoxes == 2 \* boxes of one filter_data call: num_gt + num_pred
MaxNumGt == 4       \* accepted ground-truth boxes handed to get_thresholds
MaxPrPoints == 3    \* num_pr_points handed to get_thresholds
NumPrPoints == 2    \* num_pr_points of an evaluation run
MaxIouSamples == 3  \* samples handed to compute_iou3d
MaxTotalItrs == 4   \* opts.total_itrs of a segmentation training run
MaxValInterval == 3 \* opts.val_interval
MaxBatches == 2     \* batches per epoch of train_loader

\* confidence scores: a low and a high one
Scores == {1, 2}

\* ---------------------------------------------------------- constants
IouScale == 840     \* unit of an IoU value: iou = value / IouScale
EpsInv == 1000000   \* eps = 1e-6 = 1 / EpsInv

iou_threshold_dict ==
    [Car |-> 588, Bus |-> 588, Truck |-> 588, Pedestrian |-> 252, Cyclist |-> 420]

superclass_iou_threshold_dict ==
    [Vehicle |-> 588, Pedestrian |-> 252, Cyclist |-> 420]

\* IoU values fed to the matching passes (0.5, 0.6, 1.0), matched at the
\* Cyclist threshold 0.5: one value not above it and two distinct ones above
IouValues == {420, 504, 840}
Flags == {-1, 0, 1}

\* ------------------------------------------------------------ helpers
SeqOfLen(S, n) == [1..n -> S]

RECURSIVE SumSeq(_)
SumSeq(s) == IF s = <<>> THEN 0 ELSE Head(s) + SumSeq(Tail(s))

Count(s, v) == Cardinality({k \in DOMAIN s : s[k] = v})

Min(a, b) == IF a <= b THEN a ELSE b

Max(a, b) == IF a >= b THEN a ELSE b

Abs(a) == IF a >= 0 THEN a ELSE 0 - a

RECURSIVE GCD(_, _)
GCD(a, b) == IF b = 0 THEN a ELSE GCD(b, a % b)

\* --------------------------------------------------- float divisions
\* n / d for n >= 0, d >= 0: the fraction in lowest terms; 0 / 0 is nan
NaN == [n |-> 0, d |-> 0]

Frac(n, d) == IF d = 0 THEN NaN ELSE [n |-> n \div GCD(n, d), d |-> d \div GCD(n, d)]

Zero == Frac(0, 1)

IsNaN(a) == a.d = 0

FAdd(a, b) ==
    IF IsNaN(a) \/ IsNaN(b) THEN NaN ELSE Frac(a.n * b.d + b.n * a.d, a.d * b.d)

\* a / k * m for integers k > 0, m > 0
FScale(a, k, m) == IF IsNaN(a) THEN NaN ELSE Frac(a.n * m, a.d * k)

FLeq(a, b) == ~IsNaN(a) /\ ~IsNaN(b) /\ a.n * b.d <= b.n * a.d

\* np.max of two values: nan if either is nan
FMax(a, b) == IF IsNaN(a) \/ IsNaN(b) THEN NaN ELSE IF FLeq(a, b) THEN b ELSE a

RECURSIVE FMaxSeq(_)
FMaxSeq(s) == IF Len(s) = 1 THEN s[1] ELSE FMax(s[1], FMaxSeq(Tail(s)))

RECURSIVE FSumSeq(_)
FSumSeq(s) == IF s = <<>> THEN Zero ELSE FAdd(s[1], FSumSeq(Tail(s)))

RECURSIVE Concat(_)
Concat(ss) == IF ss = <<>> THEN <<>> ELSE Head(ss) \o Concat(Tail(ss))

\* ------------------------------------------------- accumulate_scores
\* accumulate_scan without the skip of line 192 (an assigned prediction is
\* offered again)
accumulate_scan_reoffers(iou_row, pred_scores, pred_flag, assigned, iou_threshold) ==
    LET F[j \in 0..Len(pred_scores)] ==
            IF j = 0 THEN [det_idx |-> -1, detected_score |-> -1]
            ELSE LET p == F[j - 1] IN
                 IF pred_flag[j] = -1 THEN p
                 ELSE IF iou_row[j] > iou_threshold
                         /\ pred_scores[j] > p.detected_score
                      THEN [det_idx |-> j, detected_score |-> pred_scores[j]]
                      ELSE p
    IN  F[Len(pred_scores)]

\* accumulate_scan with >= in line 196 (the last of equal scores wins)
accumulate_scan_last_on_tie(iou_row, pred_scores, pred_flag, assigned, iou_threshold) ==
    LET F[j \in 0..Len(pred_scores)] ==
            IF j = 0 THEN [det_idx |-> -1, detected_score |-> -1]
            ELSE LET p == F[j - 1] IN
                 IF pred_flag[j] = -1 THEN p
                 ELSE IF assigned[j] THEN p
                 ELSE IF iou_row[j] > iou_threshold
                         /\ pred_scores[j] >= p.detected_score
                      THEN [det_idx |-> j, detected_score |-> pred_scores[j]]
                      ELSE p
    IN  F[Len(pred_scores)]

\* lines 187-198: the scan of the predictions for ground-truth row i
accumulate_scan(iou_row, pred_scores, pred_flag, assigned, iou_threshold) ==
    LET F[j \in 0..Len(pred_scores)] ==
            IF j = 0 THEN [det_idx |-> -1, detected_score |-> -1]
            ELSE LET p == F[j - 1] IN
                 IF pred_flag[j] = -1 THEN p
                 ELSE IF assigned[j] THEN p
                 ELSE IF iou_row[j] > iou_threshold
                         /\ pred_scores[j] > p.detected_score
                      THEN [det_idx |-> j, detected_score |-> pred_scores[j]]
                      ELSE p
    IN  F[Len(pred_scores)]

\* lines 185-207: one iteration of the loop over the ground-truth boxes.
\* st = [assigned, accum_scores, det]; det records, per row, the prediction
\* the row marked assigned (-1: none).
accumulate_row(st, iou_row, gt_flag_i, pred_scores, pred_flag, iou_threshold) ==
    IF gt_flag_i = -1
    THEN [st EXCEPT !.det = Append(@, -1)]
    ELSE LET s == accumulate_scan(iou_row, pred_scores, pred_flag,
                                  st.assigned, iou_threshold) IN
         IF s.detected_score = -1 /\ gt_flag_i = 0
         THEN [st EXCEPT !.det = Append(@, -1)]
         ELSE IF s.detected_score # -1
                 /\ (gt_flag_i = 1 \/ pred_flag[s.det_idx] = 1)
         THEN [st EXCEPT !.assigned[s.det_idx] = TRUE,
                         !.det = Append(@, s.det_idx)]
         ELSE IF s.detected_score # -1
         THEN [st EXCEPT !.accum_scores = Append(@, pred_scores[s.det_idx]),
                         !.assigned[s.det_idx] = TRUE,
                         !.det = Append(@, s.det_idx)]
         ELSE [st EXCEPT !.det = Append(@, -1)]

accumulate_init(num_pred) ==
    [assigned |-> [j \in 1..num_pred |-> FALSE], accum_scores |-> <<>>, det |-> <<>>]

\* lines 178-209, for an IoU matrix given as a sequence of rows
accumulate_state(iou, pred_scores, gt_flag, pred_flag, iou_threshold) ==
    LET F[i \in 0..Len(gt_flag)] ==
            IF i = 0 THEN accumulate_init(Len(pred_scores))
            ELSE accumulate_row(F[i - 1], iou[i], gt_flag[i], pred_scores,
                                pred_flag, iou_threshold)
    IN  F[Len(gt_flag)]

accumulate_scores(iou, pred_scores, gt_flag, pred_flag, iou_threshold) ==
    accumulate_state(iou, pred_scores, gt_flag, pred_flag, iou_threshold).accum_scores

\* ------------------------------------------------ compute_statistics
\* line 216
under_threshold(pred_scores, score_threshold) ==
    [j \in 1..Len(pred_scores) |-> pred_scores[j] < score_threshold]

\* statistics_scan choosing by score as accumulate_scores does
statistics_scan_by_score(iou_row, pred_scores, pred_flag, assigned, score_threshold, iou_threshold) ==
    LET under == under_threshold(pred_scores, score_threshold)
        F[j \in 0..Len(pred_scores)] ==
            IF j = 0
            THEN [det_idx |-> -1, detected |-> FALSE, best_matched_iou |-> 0,
                  gt_assigned_to_ignore |-> FALSE]
            ELSE LET p == F[j - 1] IN
                 IF pred_flag[j] = -1 THEN p
                 ELSE IF assigned[j] THEN p
                 ELSE IF under[j] THEN p
                 ELSE IF iou_row[j] > iou_threshold
                         /\ (~p.detected \/ pred_scores[j] > pred_scores[p.det_idx])
                      THEN [det_idx |-> j, detected |-> TRUE,
                            best_matched_iou |-> iou_row[j],
                            gt_assigned_to_ignore |-> pred_flag[j] = 1]
                      ELSE p
    IN  F[Len(pred_scores)]

\* statistics_scan without the "or gt_assigned_to_ignore" of line 234, the
\* best IoU being that of any prediction picked
statistics_scan_keeps_ignored(iou_row, pred_scores, pred_flag, assigned, score_threshold, iou_threshold) ==
    LET under == under_threshold(pred_scores, score_threshold)
        F[j \in 0..Len(pred_scores)] ==
            IF j = 0
            THEN [det_idx |-> -1, detected |-> FALSE, best_matched_iou |-> 0,
                  gt_assigned_to_ignore |-> FALSE]
            ELSE LET p == F[j - 1] IN
                 IF pred_flag[j] = -1 THEN p
                 ELSE IF assigned[j] THEN p
                 ELSE IF under[j] THEN p
                 ELSE IF iou_row[j] > iou_threshold
                         /\ iou_row[j] > p.best_matched_iou
                         /\ pred_flag[j] = 0
                      THEN [det_idx |-> j, detected |-> TRUE,
                            best_matched_iou |-> iou_row[j],
                            gt_assigned_to_ignore |-> FALSE]
                 ELSE IF iou_row[j] > iou_threshold /\ ~p.detected
                         /\ pred_flag[j] = 1
                      THEN [p EXCEPT !.det_idx = j, !.detected = TRUE,
                                     !.best_matched_iou = iou_row[j],
                                     !.gt_assigned_to_ignore = TRUE]
                      ELSE p
    IN  F[Len(pred_scores)]

\* lines 222-243: the scan of the predictions for ground-truth row i
statistics_scan(iou_row, pred_scores, pred_flag, assigned, score_threshold, iou_threshold) ==
    LET under == under_threshold(pred_scores, score_threshold)
        F[j \in 0..Len(pred_scores)] ==
            IF j = 0
            THEN [det_idx |-> -1, detected |-> FALSE, best_matched_iou |-> 0,
                  gt_assigned_to_ignore |-> FALSE]
            ELSE LET p == F[j - 1] IN
                 IF pred_flag[j] = -1 THEN p
                 ELSE IF assigned[j] THEN p
                 ELSE IF under[j] THEN p
                 ELSE IF iou_row[j] > iou_threshold
                         /\ (iou_row[j] > p.best_matched_iou
                             \/ p.gt_assigned_to_ignore)
                         /\ pred_flag[j] = 0
                      THEN [det_idx |-> j, detected |-> TRUE,
                            best_matched_iou |-> iou_row[j],
                            gt_assigned_to_ignore |-> FALSE]
                 ELSE IF iou_row[j] > iou_threshold /\ ~p.detected
                         /\ pred_flag[j] = 1
                      THEN [p EXCEPT !.det_idx = j, !.detected = TRUE,
                                     !.gt_assigned_to_ignore = TRUE]
                      ELSE p
    IN  F[Len(pred_scores)]

\* statistics_row without the skip of line 220 (a rejected box is matched)
statistics_row_keeps_rejected(st, iou_row, gt_flag_i, pred_scores, pred_flag, score_threshold, iou_threshold) ==
    LET s == statistics_scan(iou_row, pred_scores, pred_flag, st.assigned,
                             score_threshold, iou_threshold) IN
    IF ~s.detected /\ gt_flag_i = 0
    THEN [st EXCEPT !.fn = @ + 1, !.det = Append(@, -1)]
    ELSE IF s.detected /\ (gt_flag_i = 1 \/ pred_flag[s.det_idx] = 1)
    THEN [st EXCEPT !.assigned[s.det_idx] = TRUE, !.det = Append(@, s.det_idx)]
    ELSE IF s.detected
    THEN [st EXCEPT !.tp = @ + 1, !.assigned[s.det_idx] = TRUE,
                    !.det = Append(@, s.det_idx)]
    ELSE [st EXCEPT !.det = Append(@, -1)]

\* statistics_row without the branch of line 247 (an ignored match counts
\* as a true positive)
statistics_row_counts_ignored(st, iou_row, gt_flag_i, pred_scores, pred_flag, score_threshold, iou_threshold) ==
    IF gt_flag_i = -1
    THEN [st EXCEPT !.det = Append(@, -1)]
    ELSE LET s == statistics_scan(iou_row, pred_scores, pred_flag, st.assigned,
                                  score_threshold, iou_threshold) IN
         IF ~s.detected /\ gt_flag_i = 0
         THEN [st EXCEPT !.fn = @ + 1, !.det = Append(@, -1)]
         ELSE IF s.detected
         THEN [st EXCEPT !.tp = @ + 1, !.assigned[s.det_idx] = TRUE,
                         !.det = Append(@, s.det_idx)]
         ELSE [st EXCEPT !.det = Append(@, -1)]

\* lines 220-251: one iteration of the loop over the ground-truth boxes.
\* st = [assigned, tp, fp, fn, det]
statistics_row(st, iou_row, gt_flag_i, pred_scores, pred_flag, score_threshold, iou_threshold) ==
    IF gt_flag_i = -1
    THEN [st EXCEPT !.det = Append(@, -1)]
    ELSE LET s == statistics_scan(iou_row, pred_scores, pred_flag, st.assigned,
                                  score_threshold, iou_threshold) IN
         IF ~s.detected /\ gt_flag_i = 0
         THEN [st EXCEPT !.fn = @ + 1, !.det = Append(@, -1)]
         ELSE IF s.detected /\ (gt_flag_i = 1 \/ pred_flag[s.det_idx] = 1)
         THEN [st EXCEPT !.assigned[s.det_idx] = TRUE,
                         !.det = Append(@, s.det_idx)]
         ELSE IF s.detected
         THEN [st EXCEPT !.tp = @ + 1,
                         !.assigned[s.det_idx] = TRUE,
                         !.det = Append(@, s.det_idx)]
         ELSE [st EXCEPT !.det = Append(@, -1)]

statistics_init(num_pred) ==
    [assigned |-> [j \in 1..num_pred |-> FALSE], tp |-> 0, fp |-> 0, fn |-> 0,
     det |-> <<>>]

\* lines 253-255 without the test of pred_flag[j] == 1
statistics_fp_counts_ignored(st, pred_scores, pred_flag, score_threshold) ==
    LET under == under_threshold(pred_scores, score_threshold) IN
    [st EXCEPT !.fp = @ + Cardinality({j \in 1..Len(pred_scores) :
                          ~(st.assigned[j] \/ pred_flag[j] = -1 \/ under[j])})]

\* lines 253-255: the false positives among the predictions left unassigned
statistics_fp(st, pred_scores, pred_flag, score_threshold) ==
    LET under == under_threshold(pred_scores, score_threshold) IN
    [st EXCEPT !.fp = @ + Cardinality({j \in 1..Len(pred_scores) :
                          ~(st.assigned[j] \/ pred_flag[j] = -1
                            \/ pred_flag[j] = 1 \/ under[j])})]

\* lines 212-257, for an IoU matrix given as a sequence of rows
statistics_state(iou, pred_scores, gt_flag, pred_flag, score_threshold, iou_threshold) ==
    LET F[i \in 0..Len(gt_flag)] ==
            IF i = 0 THEN statistics_init(Len(pred_scores))
            ELSE statistics_row(F[i - 1], iou[i], gt_flag[i], pred_scores,
                                pred_flag, score_threshold, iou_threshold)
    IN  statistics_fp(F[Len(gt_flag)], pred_scores, pred_flag, score_threshold)

compute_statistics(iou, pred_scores, gt_flag, pred_flag, score_threshold, iou_threshold) ==
    LET st == statistics_state(iou, pred_scores, gt_flag, pred_flag,
                               score_threshold, iou_threshold)
    IN  [tp |-> st.tp, fp |-> st.fp, fn |-> st.fn]

\* ---------------------------------------------------- get_thresholds
\* lines 156-157: scores.sort(); scores = scores[::-1]
RECURSIVE InsertDesc(_, _)
InsertDesc(x, s) ==
    IF s = <<>> THEN <<x>>
    ELSE IF x >= Head(s) THEN <<x>> \o s
    ELSE <<Head(s)>> \o InsertDesc(x, Tail(s))

RECURSIVE SortDesc(_)
SortDesc(s) == IF s = <<>> THEN <<>> ELSE InsertDesc(Head(s), SortDesc(Tail(s)))

\* lines 172-174: while r_recall + l_recall + eps > 2 * recall_level.
\* rl = (r_recall + l_recall) * num_gt; recall_level = k / num_pr_points;
\* eps = eps_num / EpsInv; the comparison is multiplied through by
\* num_gt * num_pr_points * EpsInv.
RECURSIVE thresholds_while(_, _, _, _, _, _, _)
thresholds_while(rl, num_gt, num_pr_points, eps_num, k, thresholds, score) ==
    IF rl * num_pr_points * EpsInv + eps_num * num_gt * num_pr_points
          > 2 * k * num_gt * EpsInv
    THEN thresholds_while(rl, num_gt, num_pr_points, eps_num, k + 1,
                          Append(thresholds, score), score)
    ELSE [k |-> k, thresholds |-> thresholds]

\* lines 155-175 with eps = eps_num / EpsInv
thresholds_walk(scores, num_gt, num_pr_points, eps_num) ==
    LET sorted == SortDesc(scores)
        n == Len(sorted)
        F[i \in 0..n] ==
            IF i = 0 THEN [k |-> 0, thresholds |-> <<>>]
            ELSE LET p == F[i - 1]
                     \* the source's index is i - 1
                     l_num == i
                     r_num == IF i - 1 < n - 1 THEN i + 1 ELSE l_num
                 IN  IF (r_num + l_num) * num_pr_points < 2 * p.k * num_gt
                        /\ i - 1 < n - 1
                     THEN p
                     ELSE thresholds_while(r_num + l_num, num_gt, num_pr_points,
                                           eps_num, p.k + 1,
                                           Append(p.thresholds, sorted[i]), sorted[i])
    IN  F[n].thresholds

\* get_thresholds with eps = 0 (the loop condition without the guard
\* against numerical errors)
get_thresholds_no_eps(scores, num_gt, num_pr_points) ==
    thresholds_walk(scores, num_gt, num_pr_points, 0)

\* get_thresholds with eps = 2 in the place of 1e-6
get_thresholds_wide_eps(scores, num_gt, num_pr_points) ==
    thresholds_walk(scores, num_gt, num_pr_points, 2 * EpsInv)

\* lines 153-175
get_thresholds(scores, num_gt, num_pr_points) ==
    thresholds_walk(scores, num_gt, num_pr_points, 1)

\* ------------------------------------------------------- annotations
\* An annotation is [name, boxes_3d, score]: parallel sequences; a box is
\* <<x, y, z, w, l, h, rot>>.
Names == {"Car", "Bus", "Truck", "Pedestrian", "Cyclist"}

BoxAt(x) == <<x, 0, 0, 4, 2, 2, 0>>

\* squared distance from the origin of a box centre
Dist2(box) == box[1] * box[1] + box[2] * box[2] + box[3] * box[3]

\* eval_utils.overall_filter: nothing is ignored
overall_filter(boxes) == [k \in DOMAIN boxes |-> FALSE]

\* eval_utils.distance_filter: everything outside the level's distance range
\* (0: below 30 m, 1: 30 m to below 50 m, 2: 50 m and beyond) is ignored
distance_filter(boxes, level) ==
    [k \in DOMAIN boxes |->
        ~ CASE level = 0 -> Dist2(boxes[k]) < 900
            [] level = 1 -> Dist2(boxes[k]) >= 900 /\ Dist2(boxes[k]) < 2500
            [] level = 2 -> Dist2(boxes[k]) >= 2500
            [] OTHER -> FALSE]

\* eval_utils.overall_distance_filter: level 0 is "overall", levels 1..3 are
\* the three distance ranges
overall_distance_filter(boxes, level) ==
    IF level = 0 THEN [k \in DOMAIN boxes |-> FALSE]
    ELSE distance_filter(boxes, level - 1)

DifficultyModes == {"Overall", "Distance", "Overall&Distance"}

\* lines 55-63
num_difficulties_of(mode) ==
    CASE mode = "Distance" -> 3
      [] mode = "Overall" -> 1
      [] mode = "Overall&Distance" -> 4

\* ------------------------------------------------------- filter_data
\* lines 278-284 and 288-294: the boxes rejected for their class
filter_reject(names, class_name, use_superclass) ==
    [k \in DOMAIN names |->
        IF use_superclass /\ class_name = "Vehicle"
        THEN names[k] = "Pedestrian" \/ names[k] = "Cyclist"
        ELSE names[k] # class_name]

\* lines 297-313: the boxes ignored for their difficulty
filter_ignore(boxes, difficulty_mode, difficulty_level) ==
    CASE difficulty_mode = "Overall" -> overall_filter(boxes)
      [] difficulty_mode = "Distance" -> distance_filter(boxes, difficulty_level)
      [] difficulty_mode = "Overall&Distance" ->
             overall_distance_filter(boxes, difficulty_level)

\* lines 277-285 with 297-309 (and 286-295 with 300-311): the flag vector of
\* one annotation: zeros, then flag[reject] = -1, then flag[ignore] = 1
filter_flags(anno, difficulty_mode, difficulty_level, class_name, use_superclass) ==
    LET reject == filter_reject(anno.name, class_name, use_superclass)
        ignore == filter_ignore(anno.boxes_3d, difficulty_mode, difficulty_level)
        zeros == [k \in DOMAIN anno.name |-> 0]
        rejected == [k \in DOMAIN anno.name |-> IF reject[k] THEN -1 ELSE zeros[k]]
    IN  [k \in DOMAIN anno.name |-> IF ignore[k] THEN 1 ELSE rejected[k]]

\* lines 259-315
filter_data(gt_anno, pred_anno, difficulty_mode, difficulty_level, class_name, use_superclass) ==
    [gt_flag |-> filter_flags(gt_anno, difficulty_mode, difficulty_level,
                              class_name, use_superclass),
     pred_flag |-> filter_flags(pred_anno, difficulty_mode, difficulty_level,
                                class_name, use_superclass)]

\* ------------------------------------------------------ IoU kernels
\* A rotation is a whole number of quarter turns (pi / 2).  Lengths are
\* doubled before they are halved, so every value stays an integer: an
\* overlap of two intervals is held twice, an area four times, a volume
\* eight times.

\* twice the overlap of the intervals of centre c and extent e
Overlap2(c1, e1, c2, e2) ==
    Max(0, Min(2 * c1 + e1, 2 * c2 + e2) - Max(2 * c1 - e1, 2 * c2 - e2))

\* the extents of a box along x and y: w and l, swapped by a quarter turn
ExtentX(box) == IF box[7] % 2 = 0 THEN box[4] ELSE box[5]

ExtentY(box) == IF box[7] % 2 = 0 THEN box[5] ELSE box[4]

\* iou_utils.rotate_iou_gpu_eval(..., criterion=2) on (x, y, w, l, rot): the
\* area of the intersection of the two rectangles in bird's-eye view (x4)
rotate_iou_gpu_eval(g, p) ==
    Overlap2(g[1], ExtentX(g), p[1], ExtentX(p))
        * Overlap2(g[2], ExtentY(g), p[2], ExtentY(p))

\* iou3d_pair without line 336 (a negative inter_h is kept)
iou3d_pair_unclipped(g, p) ==
    LET intersection_2d == rotate_iou_gpu_eval(g, p)
        max_of_min == Max(2 * g[3] - g[6], 2 * p[3] - p[6])
        min_of_max == Min(2 * g[3] + g[6], 2 * p[3] + p[6])
        intersection_3d == intersection_2d * (min_of_max - max_of_min)
        union_3d == 8 * g[4] * g[5] * g[6] + 8 * p[4] * p[5] * p[6] - intersection_3d
    IN  (IouScale * intersection_3d) \div union_3d

\* lines 328-345, for one pair of boxes
iou3d_pair(g, p) ==
    LET intersection_2d == rotate_iou_gpu_eval(g, p)
        gt_max_h == 2 * g[3] + g[6]
        gt_min_h == 2 * g[3] - g[6]
        pred_max_h == 2 * p[3] + p[6]
        pred_min_h == 2 * p[3] - p[6]
        max_of_min == Max(gt_min_h, pred_min_h)
        min_of_max == Min(gt_max_h, pred_max_h)
        inter_h == IF min_of_max - max_of_min <= 0 THEN 0 ELSE min_of_max - max_of_min
        intersection_3d == intersection_2d * inter_h
        gt_vol == 8 * g[4] * g[5] * g[6]
        pred_vol == 8 * p[4] * p[5] * p[6]
        union_3d == gt_vol + pred_vol - intersection_3d
    IN  (IouScale * intersection_3d) \div union_3d

\* lines 317-345
iou3d_kernel(gt_boxes, pred_boxes) ==
    [i \in DOMAIN gt_boxes |-> [j \in DOMAIN pred_boxes |->
        iou3d_pair(gt_boxes[i], pred_boxes[j])]]

\* lines 376-381, for one pair of boxes: the yaw difference wrapped to
\* [0, pi] (2 quarter turns); beyond pi / 2 the pair is unmatched
heading_filtered(g, p, iou) ==
    LET diff_rot == Abs(g[7] - p[7])
        reverse_diff_rot == 4 - diff_rot
        wrapped == IF diff_rot >= 2 THEN reverse_diff_rot ELSE diff_rot
    IN  IF wrapped > 1 THEN 0 ELSE iou

\* lines 347-382
iou3d_kernel_with_heading(gt_boxes, pred_boxes) ==
    [i \in DOMAIN gt_boxes |-> [j \in DOMAIN pred_boxes |->
        heading_filtered(gt_boxes[i], pred_boxes[j],
                         iou3d_pair(gt_boxes[i], pred_boxes[j]))]]

\* eval_utils.compute_split_parts: num_parts parts of equal size and one for
\* the remainder; one part when there are fewer samples than parts
compute_split_parts(num_samples, num_parts) ==
    LET part_samples == num_samples \div num_parts
        remain_samples == num_samples % num_parts
    IN  IF part_samples = 0 THEN <<num_samples>>
        ELSE IF remain_samples = 0 THEN [k \in 1..num_parts |-> part_samples]
        ELSE [k \in 1..num_parts |-> part_samples] \o <<remain_samples>>

\* iou3d_of_part without lines 418-419 (gt_num_idx and pred_num_idx stay 0)
iou3d_of_part_no_offset(gt_annos_part, pred_annos_part, with_heading) ==
    LET n == Len(gt_annos_part)
        gt_boxes == Concat([k \in 1..n |-> gt_annos_part[k].boxes_3d])
        pred_boxes == Concat([k \in 1..n |-> pred_annos_part[k].boxes_3d])
        iou3d_part == IF with_heading
                      THEN iou3d_kernel_with_heading(gt_boxes, pred_boxes)
                      ELSE iou3d_kernel(gt_boxes, pred_boxes)
    IN  [idx \in 1..n |->
            [i \in 1..Len(gt_annos_part[idx].name) |->
                [j \in 1..Len(pred_annos_part[idx].name) |-> iou3d_part[i][j]]]]

\* lines 402-419: the IoU matrices of the samples of one part
iou3d_of_part(gt_annos_part, pred_annos_part, with_heading) ==
    LET n == Len(gt_annos_part)
        gt_boxes == Concat([k \in 1..n |-> gt_annos_part[k].boxes_3d])
        pred_boxes == Concat([k \in 1..n |-> pred_annos_part[k].boxes_3d])
        iou3d_part == IF with_heading
                      THEN iou3d_kernel_with_heading(gt_boxes, pred_boxes)
                      ELSE iou3d_kernel(gt_boxes, pred_boxes)
        gt_num_idx(idx) == SumSeq([k \in 1..(idx - 1) |-> Len(gt_annos_part[k].name)])
        pred_num_idx(idx) == SumSeq([k \in 1..(idx - 1) |-> Len(pred_annos_part[k].name)])
    IN  [idx \in 1..n |->
            [i \in 1..Len(gt_annos_part[idx].name) |->
                [j \in 1..Len(pred_annos_part[idx].name) |->
                    iou3d_part[gt_num_idx(idx) + i][pred_num_idx(idx) + j]]]]

\* lines 397-421
RECURSIVE iou3d_from(_, _, _, _, _)
iou3d_from(gt_annos, pred_annos, split_parts, with_heading, sample_idx) ==
    IF split_parts = <<>> THEN <<>>
    ELSE LET num_part_samples == Head(split_parts) IN
         iou3d_of_part(SubSeq(gt_annos, sample_idx + 1, sample_idx + num_part_samples),
                       SubSeq(pred_annos, sample_idx + 1, sample_idx + num_part_samples),
                       with_heading)
         \o iou3d_from(gt_annos, pred_annos, Tail(split_parts), with_heading,
                       sample_idx + num_part_samples)

\* lines 384-421
compute_iou3d(gt_annos, pred_annos, split_parts, with_heading) ==
    iou3d_from(gt_annos, pred_annos, split_parts, with_heading, 0)

\* ----------------------------------------- get_evaluation_results
\* lines 55-63
difficulty_types_of(mode) ==
    CASE mode = "Distance" -> <<"0-30m", "30-50m", "50m-inf">>
      [] mode = "Overall" -> <<"overall">>
      [] mode = "Overall&Distance" -> <<"overall", "0-30m", "30-50m", "50m-inf">>

\* lines 36-40
default_iou_thresholds(use_superclass) ==
    IF use_superclass THEN superclass_iou_threshold_dict ELSE iou_threshold_dict

\* the superclass check of lines 44-46, asking for the three classes even
\* when none of them is in classes
failed_assert_needs_vehicles(gt_annos, pred_annos, classes, use_superclass, difficulty_mode) ==
    LET names == {classes[k] : k \in DOMAIN classes} IN
    IF Len(gt_annos) # Len(pred_annos)
    THEN "the number of GT must match predictions"
    ELSE IF difficulty_mode \notin {"Overall&Distance", "Overall", "Distance"}
    THEN "difficulty mode is not supported"
    ELSE IF use_superclass /\ ~({"Car", "Bus", "Truck"} \subseteq names)
    THEN "Car/Bus/Truck must all exist for vehicle detection"
    ELSE "none"

\* lines 42-46: the message of the first assert that fails, "none" if all hold
failed_assert(gt_annos, pred_annos, classes, use_superclass, difficulty_mode) ==
    LET names == {classes[k] : k \in DOMAIN classes} IN
    IF Len(gt_annos) # Len(pred_annos)
    THEN "the number of GT must match predictions"
    ELSE IF difficulty_mode \notin {"Overall&Distance", "Overall", "Distance"}
    THEN "difficulty mode is not supported"
    ELSE IF /\ use_superclass
            /\ {"Car", "Bus", "Truck"} \cap names # {}
            /\ ~({"Car", "Bus", "Truck"} \subseteq names)
    THEN "Car/Bus/Truck must all exist for vehicle detection"
    ELSE "none"

\* line 71 with a default of 0.5 for a class that has no entry
lookup_threshold_or_default(iou_thresholds, cur_class) ==
    IF cur_class \in DOMAIN iou_thresholds
    THEN [found |-> TRUE, iou_threshold |-> iou_thresholds[cur_class]]
    ELSE [found |-> TRUE, iou_threshold |-> IouScale \div 2]

\* line 71: iou_thresholds[cur_class]; found is FALSE where the dict raises KeyError
lookup_threshold(iou_thresholds, cur_class) ==
    IF cur_class \in DOMAIN iou_thresholds
    THEN [found |-> TRUE, iou_threshold |-> iou_thresholds[cur_class]]
    ELSE [found |-> FALSE, iou_threshold |-> 0]

\* lines 44-48
RECURSIVE WithoutVehicles(_)
WithoutVehicles(classes) ==
    IF classes = <<>> THEN <<>>
    ELSE IF Head(classes) \in {"Car", "Bus", "Truck"} THEN WithoutVehicles(Tail(classes))
    ELSE <<Head(classes)>> \o WithoutVehicles(Tail(classes))

\* lines 44-48 with the last two lines under the test of line 45
scored_classes_vehicle_if_given(classes, use_superclass) ==
    IF use_superclass /\ \E k \in DOMAIN classes : classes[k] \in {"Car", "Bus", "Truck"}
    THEN <<"Vehicle">> \o WithoutVehicles(classes)
    ELSE classes

scored_classes(classes, use_superclass) ==
    IF use_superclass THEN <<"Vehicle">> \o WithoutVehicles(classes) ELSE classes

\* line 47 binds the local name classes to a new list, and line 48 inserts
\* into that new list: the list object the caller passed keeps its elements
caller_classes_after(classes, use_superclass) == classes

\* the arrays allocated with np.ones
ones_array(num_classes, num_difficulties, num_pr_points) ==
    [c \in 1..num_classes |-> [d \in 1..num_difficulties |->
        [t \in 1..(num_pr_points + 1) |-> Frac(1, 1)]]]

\* the arrays allocated without a value (np.empty): nan at every position
nan_array(num_classes, num_difficulties, num_pr_points) ==
    [c \in 1..num_classes |-> [d \in 1..num_difficulties |->
        [t \in 1..(num_pr_points + 1) |-> NaN]]]

\* lines 67-68
zeros_array(num_classes, num_difficulties, num_pr_points) ==
    [c \in 1..num_classes |-> [d \in 1..num_difficulties |->
        [t \in 1..(num_pr_points + 1) |-> Zero]]]

\* lines 112-116 for one of the two arrays: in place, by rising index, each of
\* the first num_thresholds entries becomes the maximum of the entries from
\* it to the end
envelope(curve, num_thresholds) ==
    LET F[t \in 0..num_thresholds] ==
            IF t = 0 THEN curve
            ELSE [F[t - 1] EXCEPT ![t] = FMaxSeq(SubSeq(F[t - 1], t, Len(curve)))]
    IN  F[num_thresholds]

\* lines 106-110 for one of the two arrays: the raw values at the selected
\* thresholds written over the row of the array; row t of confusion_matrix
\* is <<tp, fp, fn>>, and other is column 2 (fp) for precision, column 3
\* (fn) for recall
raw_curve(row, confusion_matrix, other) ==
    [t \in DOMAIN row |->
        IF t <= Len(confusion_matrix)
        THEN Frac(confusion_matrix[t][1], confusion_matrix[t][1] + confusion_matrix[t][other])
        ELSE row[t]]

\* lines 76-84: the flags of every sample
filter_samples(gt_annos, pred_annos, mode, difficulty_level, cur_class, use_superclass) ==
    [s \in 1..Len(gt_annos) |->
        filter_data(gt_annos[s], pred_annos[s], mode, difficulty_level,
                    cur_class, use_superclass)]

\* lines 75 and 85: num_valid_gt += sum(gt_flag == 0)
count_valid_gt(flags) ==
    SumSeq([s \in DOMAIN flags |-> Count(flags[s].gt_flag, 0)])

\* lines 86-89: the true-positive scores of all samples
accumulate_all_scores(ious, pred_annos, flags, iou_threshold) ==
    Concat([s \in DOMAIN flags |->
        accumulate_scores(ious[s], pred_annos[s].score, flags[s].gt_flag,
                          flags[s].pred_flag, iou_threshold)])

\* the row <<tp, fp, fn>> taken from the first sample alone
confusion_row_first_sample(stats) ==
    <<stats[1].tp, stats[1].fp, stats[1].fn>>

\* lines 101-103: the row <<tp, fp, fn>> of one threshold, summed over the
\* samples
confusion_row(stats) ==
    <<SumSeq([s \in DOMAIN stats |-> stats[s].tp]),
      SumSeq([s \in DOMAIN stats |-> stats[s].fp]),
      SumSeq([s \in DOMAIN stats |-> stats[s].fn])>>

\* lines 93-103
confusion_matrix_at(ious, pred_annos, flags, thresholds, iou_threshold) ==
    [t \in DOMAIN thresholds |->
        confusion_row([s \in DOMAIN flags |->
            compute_statistics(ious[s], pred_annos[s].score, flags[s].gt_flag,
                               flags[s].pred_flag, thresholds[t], iou_threshold)])]

\* lines 112-116, and what one pass of the loop leaves behind
pass_enveloped(num_valid_gt, all_scores, thresholds, confusion_matrix, raw_precision, raw_recall) ==
    [num_valid_gt |-> num_valid_gt, all_scores |-> all_scores,
     thresholds |-> thresholds, confusion_matrix |-> confusion_matrix,
     raw_precision |-> raw_precision, raw_recall |-> raw_recall,
     precision |-> envelope(raw_precision, Len(thresholds)),
     recall |-> envelope(raw_recall, Len(thresholds))]

\* lines 105-116
pass_from_matrix(num_valid_gt, all_scores, thresholds, confusion_matrix, precision_row, recall_row) ==
    pass_enveloped(num_valid_gt, all_scores, thresholds, confusion_matrix,
                   raw_curve(precision_row, confusion_matrix, 2),
                   raw_curve(recall_row, confusion_matrix, 3))

\* lines 92-116
pass_from_thresholds(ious, pred_annos, flags, iou_threshold, num_valid_gt, all_scores, thresholds, precision_row, recall_row) ==
    pass_from_matrix(num_valid_gt, all_scores, thresholds,
                     confusion_matrix_at(ious, pred_annos, flags, thresholds, iou_threshold),
                     precision_row, recall_row)

\* lines 90-116
pass_from_scores(ious, pred_annos, flags, iou_threshold, num_pr_points, num_valid_gt, all_scores, precision_row, recall_row) ==
    pass_from_thresholds(ious, pred_annos, flags, iou_threshold, num_valid_gt, all_scores,
                         get_thresholds(all_scores, num_valid_gt, num_pr_points),
                         precision_row, recall_row)

\* lines 85-116
pass_from_flags(ious, pred_annos, flags, iou_threshold, num_pr_points, precision_row, recall_row) ==
    pass_from_scores(ious, pred_annos, flags, iou_threshold, num_pr_points,
                     count_valid_gt(flags),
                     accumulate_all_scores(ious, pred_annos, flags, iou_threshold),
                     precision_row, recall_row)

\* lines 73-116: the body of the loop over classes and difficulty levels
\* (difficulty_level is the source's diff_idx, from 0); precision_row and
\* recall_row are precision[cls_idx, diff_idx] and recall[cls_idx, diff_idx]
\* as allocated at lines 67-68
class_difficulty_pass(gt_annos, pred_annos, ious, mode, use_superclass, num_pr_points, cur_class, difficulty_level, iou_threshold, precision_row, recall_row) ==
    pass_from_flags(ious, pred_annos,
                    filter_samples(gt_annos, pred_annos, mode, difficulty_level,
                                   cur_class, use_superclass),
                    iou_threshold, num_pr_points, precision_row, recall_row)

\* the sum taken over range(0, num_pr_points): point 0 in, the last point out
average_precision_from_0(precision, num_pr_points) ==
    LET F[i \in 0..num_pr_points] ==
            IF i = 0 THEN Zero ELSE FAdd(F[i - 1], precision[i])
    IN  FScale(F[num_pr_points], num_pr_points, 100)

\* lines 118-121 for one class and difficulty: the sum of precision[..., i]
\* for i in range(1, num_pr_points + 1), then / num_pr_points * 100
average_precision(precision, num_pr_points) ==
    LET F[i \in 0..num_pr_points] ==
            IF i = 0 THEN Zero ELSE FAdd(F[i - 1], precision[i + 1])
    IN  FScale(F[num_pr_points], num_pr_points, 100)

\* np.sum in the place of np.mean
mean_ap_sum(AP, diff_idx) ==
    FSumSeq([c \in DOMAIN AP |-> AP[c][diff_idx]])

\* line 138: np.mean(AP, axis=0) at one difficulty
mean_ap(AP, diff_idx) ==
    FScale(FSumSeq([c \in DOMAIN AP |-> AP[c][diff_idx]]), Len(AP), 1)

\* the metrics map without lines 140-144
metrics_map_without_mean(AP, classes, difficulty_types) ==
    [key \in {classes[c] : c \in DOMAIN classes}
                \X {difficulty_types[d] : d \in DOMAIN difficulty_types} |->
        LET d == CHOOSE d \in DOMAIN difficulty_types : difficulty_types[d] = key[2]
            c == CHOOSE c \in DOMAIN classes :
                        /\ classes[c] = key[1]
                        /\ \A c2 \in DOMAIN classes : classes[c2] = key[1] => c2 <= c
        IN  AP[c][d]]

\* lines 123-146: the metrics map; a key 'AP_<class>/<difficulty>' is the
\* pair <<class, difficulty>>, and 'AP_mean/<difficulty>' is <<"mean", difficulty>>
metrics_map(AP, classes, difficulty_types) ==
    [key \in ({classes[c] : c \in DOMAIN classes} \cup {"mean"})
                \X {difficulty_types[d] : d \in DOMAIN difficulty_types} |->
        LET d == CHOOSE d \in DOMAIN difficulty_types : difficulty_types[d] = key[2] IN
        IF key[1] = "mean" THEN mean_ap(AP, d)
        ELSE \* a later write of the same key replaces an earlier one
             LET c == CHOOSE c \in DOMAIN classes :
                        /\ classes[c] = key[1]
                        /\ \A c2 \in DOMAIN classes : classes[c2] = key[1] => c2 <= c
             IN  AP[c][d]]

\* lines 133-135 and 142-144: the keys in the order in which ret_dict first
\* receives them (a dict keeps the place of a key that is written again)
metrics_keys(classes, difficulty_types) ==
    LET nd == Len(difficulty_types)
        written == [k \in 1..((Len(classes) + 1) * nd) |->
                       <<IF k <= Len(classes) * nd THEN classes[((k - 1) \div nd) + 1] ELSE "mean",
                         difficulty_types[((k - 1) % nd) + 1]>>]
        F[k \in 0..Len(written)] ==
            IF k = 0 THEN <<>>
            ELSE LET keys == F[k - 1]
                 IN  IF \E j \in DOMAIN keys : keys[j] = written[k]
                     THEN keys
                     ELSE Append(keys, written[k])
    IN  F[Len(written)]

\* "%-12.2f" % ap_score: the value in hundredths, rounded to nearest (a tie
\* to even), or nan; the rounding error of the float itself is left out
format_2f(a) ==
    IF IsNaN(a) THEN [nan |-> TRUE, hundredths |-> 0]
    ELSE LET h == (a.n * 100) \div a.d
             r == (a.n * 100) % a.d
         IN  [nan |-> FALSE,
              hundredths |-> IF 2 * r > a.d \/ (2 * r = a.d /\ h % 2 = 1) THEN h + 1 ELSE h]

\* lines 125-146: ret_str as its header (num_pr_points and the difficulty
\* columns) and its rows, one per class in the order of classes and then mAP
report(AP, classes, difficulty_types, num_pr_points) ==
    [header |-> [num_pr_points |-> num_pr_points, columns |-> difficulty_types],
     rows |-> [c \in 1..Len(classes) |->
                  [name |-> classes[c],
                   cells |-> [d \in DOMAIN difficulty_types |-> format_2f(AP[c][d])]]]
              \o <<[name |-> "mAP",
                    cells |-> [d \in DOMAIN difficulty_types |-> format_2f(mean_ap(AP, d))]]>>]

\* ------------------------------------------------------------- state
VARIABLES
    m_fn,               \* the matching pass under way
    m_pc,               \* "loop", "done"
    m_num_gt,           \* iou.shape[0]
    m_pred_scores,      \* pred_scores
    m_pred_flag,        \* pred_flag
    m_score_threshold,  \* score_threshold (compute_statistics)
    m_iou_threshold,    \* iou_threshold
    m_gt_flag,          \* gt_flag of the rows processed so far
    m_iou,              \* the IoU row processed last
    m_st,               \* the pass's locals: assigned, counters, det
    f_pc,               \* filter_data: "call", "done"
    f_args,             \* filter_data's arguments
    f_ret,              \* filter_data's result
    t_pc,               \* get_thresholds: "call", "done"
    t_args,             \* get_thresholds' arguments
    t_ret,              \* get_thresholds' result
    e_pc,               \* get_evaluation_results: "start", "loop", "done"
    e_args,             \* its arguments
    e_classes,          \* classes, as scored (lines 44-48)
    e_iou_thresholds,   \* iou_thresholds (lines 36-40)
    e_ious,             \* ious (line 52)
    e_cls_idx,          \* cls_idx of the next pass (from 1)
    e_diff_idx,         \* diff_idx of the next pass (from 1)
    e_precision,        \* precision[cls_idx][diff_idx][th_idx]
    e_recall,           \* recall[cls_idx][diff_idx][th_idx]
    e_pass,             \* the locals of the pass made for [cls_idx][diff_idx]
    e_AP,               \* AP[cls_idx][diff_idx]
    e_ret_dict,         \* ret_dict
    e_ret_keys,         \* the keys of ret_dict in insertion order
    e_ret_str,          \* ret_str: the rows of the report, each a sequence of cells
    i_fn,               \* the IoU function under way
    i_pc,               \* "call", "done"
    i_args,             \* its arguments
    i_ret,              \* its result
    s_pc,               \* the segmentation trainer: "while", "for", "returned"
    s_opts,             \* opts.total_itrs, opts.val_interval and the restored checkpoint
    s_num_batches,      \* the number of batches train_loader yields per epoch
    s_batch_idx,        \* the batches of this epoch already taken
    s_cur_itrs,         \* cur_itrs
    s_cur_epochs,       \* cur_epochs
    s_best_score,       \* best_score
    s_latest_checkpoints, \* latest_checkpoints
    s_saved,            \* the latest_* paths written by save_ckpt, in order
    s_removals,         \* the os.remove calls and their outcome, in order
    s_final_info        \* the content of final_info.json, <<>> while it is not written

mvars == <<m_fn, m_pc, m_num_gt, m_pred_scores, m_pred_flag, m_score_threshold,
           m_iou_threshold, m_gt_flag, m_iou, m_st>>

fvars == <<f_pc, f_args, f_ret>>

tvars == <<t_pc, t_args, t_ret>>

evars == <<e_pc, e_args, e_classes, e_iou_thresholds, e_ious, e_cls_idx, e_diff_idx,
           e_precision, e_recall, e_pass, e_AP, e_ret_dict, e_ret_keys, e_ret_str>>

ivars == <<i_fn, i_pc, i_args, i_ret>>

svars == <<s_pc, s_opts, s_num_batches, s_batch_idx, s_cur_itrs, s_cur_epochs, s_best_score,
           s_latest_checkpoints, s_saved, s_removals, s_final_info>>

vars == <<mvars, fvars, tvars, evars, ivars, svars>>

SegIdle ==
    /\ s_pc = "idle" /\ s_opts = <<>> /\ s_num_batches = 0 /\ s_batch_idx = 0
    /\ s_cur_itrs = 0 /\ s_cur_epochs = 0 /\ s_best_score = 0
    /\ s_latest_checkpoints = <<>> /\ s_saved = <<>> /\ s_removals = <<>>
    /\ s_final_info = <<>>

IouIdle == i_fn = "none" /\ i_pc = "idle" /\ i_args = <<>> /\ i_ret = <<>>

EvalIdle ==
    /\ e_pc = "idle" /\ e_args = <<>> /\ e_classes = <<>> /\ e_iou_thresholds = <<>>
    /\ e_ious = <<>> /\ e_cls_idx = 0 /\ e_diff_idx = 0 /\ e_precision = <<>>
    /\ e_recall = <<>> /\ e_pass = <<>> /\ e_AP = <<>> /\ e_ret_dict = <<>>
    /\ e_ret_keys = <<>> /\ e_ret_str = <<>>

ThresholdsIdle == t_pc = "idle" /\ t_args = <<>> /\ t_ret = <<>>

MatchIdle ==
    /\ m_fn = "none" /\ m_pc = "idle" /\ m_num_gt = 0
    /\ m_pred_scores = <<>> /\ m_pred_flag = <<>>
    /\ m_score_threshold = 0 /\ m_iou_threshold = 0
    /\ m_gt_flag = <<>> /\ m_iou = <<>> /\ m_st = <<>>

FilterIdle == f_pc = "idle" /\ f_args = <<>> /\ f_ret = <<>>

\* --------------------------------------- the matching passes, row by row
MatchInit ==
    /\ m_fn \in {"accumulate_scores", "compute_statistics"}
    /\ m_pc = "loop"
    /\ m_num_gt \in 0..MaxBoxes
    /\ \E n \in 0..(MaxBoxes - m_num_gt) :
          /\ m_pred_scores \in SeqOfLen(Scores, n)
          /\ m_pred_flag \in SeqOfLen(Flags, n)
    /\ m_score_threshold \in
          IF m_fn = "compute_statistics" THEN Scores ELSE {0}
    /\ m_iou_threshold = iou_threshold_dict.Cyclist
    /\ m_gt_flag = <<>>
    /\ m_iou = <<>>
    /\ m_st = IF m_fn = "accumulate_scores"
               THEN accumulate_init(Len(m_pred_scores))
               ELSE statistics_init(Len(m_pred_scores))
    /\ FilterIdle
    /\ ThresholdsIdle
    /\ EvalIdle
    /\ IouIdle
    /\ SegIdle

\* accumulate_scores, lines 184-207: the next ground-truth row
AccumulateRow ==
    /\ m_fn = "accumulate_scores" /\ m_pc = "loop"
    /\ Len(m_gt_flag) < m_num_gt
    /\ \E gt_flag_i \in Flags, iou_row \in SeqOfLen(IouValues, Len(m_pred_scores)) :
          /\ m_gt_flag' = Append(m_gt_flag, gt_flag_i)
          /\ m_iou' = iou_row
          /\ m_st' = accumulate_row(m_st, iou_row, gt_flag_i, m_pred_scores,
                                    m_pred_flag, m_iou_threshold)
    /\ UNCHANGED <<m_fn, m_pc, m_num_gt, m_pred_scores, m_pred_flag,
                   m_score_threshold, m_iou_threshold, fvars, tvars, evars, ivars, svars>>

\* accumulate_scores, line 209
AccumulateReturn ==
    /\ m_fn = "accumulate_scores" /\ m_pc = "loop"
    /\ Len(m_gt_flag) = m_num_gt
    /\ m_pc' = "done"
    /\ UNCHANGED <<m_fn, m_num_gt, m_pred_scores, m_pred_flag, m_score_threshold,
                   m_iou_threshold, m_gt_flag, m_iou, m_st, fvars, tvars, evars, ivars, svars>>

\* compute_statistics, lines 219-251: the next ground-truth row
StatisticsRow ==
    /\ m_fn = "compute_statistics" /\ m_pc = "loop"
    /\ Len(m_gt_flag) < m_num_gt
    /\ \E gt_flag_i \in Flags, iou_row \in SeqOfLen(IouValues, Len(m_pred_scores)) :
          /\ m_gt_flag' = Append(m_gt_flag, gt_flag_i)
          /\ m_iou' = iou_row
          /\ m_st' = statistics_row(m_st, iou_row, gt_flag_i, m_pred_scores,
                                    m_pred_flag, m_score_threshold, m_iou_threshold)
    /\ UNCHANGED <<m_fn, m_pc, m_num_gt, m_pred_scores, m_pred_flag,
                   m_score_threshold, m_iou_threshold, fvars, tvars, evars, ivars, svars>>

\* compute_statistics, lines 253-257
StatisticsReturn ==
    /\ m_fn = "compute_statistics" /\ m_pc = "loop"
    /\ Len(m_gt_flag) = m_num_gt
    /\ m_st' = statistics_fp(m_st, m_pred_scores, m_pred_flag, m_score_threshold)
    /\ m_pc' = "done"
    /\ UNCHANGED <<m_fn, m_num_gt, m_pred_scores, m_pred_flag, m_score_threshold,
                   m_iou_threshold, m_gt_flag, m_iou, fvars, tvars, evars, ivars, svars>>

MatchNext == AccumulateRow \/ AccumulateReturn \/ StatisticsRow \/ StatisticsReturn

SpecMatch == MatchInit /\ [][MatchNext]_vars

\* ------------------------------------------------- filter_data, one call
\* box centres at 29 m, 30 m and 50 m: one in each distance range, two of
\* them on a range's lower end
FilterXs == {29, 30, 50}

AnnosOfLen(n) ==
    {[name |-> nm, boxes_3d |-> [k \in 1..n |-> BoxAt(xs[k])], score |-> sc] :
        nm \in SeqOfLen(Names, n), xs \in SeqOfLen(FilterXs, n),
        sc \in {[k \in 1..n |-> 1]}}

FilterInit ==
    /\ f_pc = "call"
    /\ \E ng \in 0..MaxFilterBoxes : \E np \in 0..(MaxFilterBoxes - ng) :
       \E gt_anno \in AnnosOfLen(ng), pred_anno \in AnnosOfLen(np) :
       \E mode \in DifficultyModes, use_superclass \in BOOLEAN :
       \E level \in 0..(num_difficulties_of(mode) - 1) :
       \E class_name \in IF use_superclass
                         THEN DOMAIN superclass_iou_threshold_dict
                         ELSE DOMAIN iou_threshold_dict :
          f_args = [gt_anno |-> gt_anno, pred_anno |-> pred_anno,
                    difficulty_mode |-> mode, difficulty_level |-> level,
                    class_name |-> class_name, use_superclass |-> use_superclass]
    /\ f_ret = <<>>
    /\ MatchIdle
    /\ ThresholdsIdle
    /\ EvalIdle
    /\ IouIdle
    /\ SegIdle

\* lines 259-315
FilterData ==
    /\ f_pc = "call"
    /\ f_ret' = filter_data(f_args.gt_anno, f_args.pred_anno, f_args.difficulty_mode,
                            f_args.difficulty_level, f_args.class_name,
                            f_args.use_superclass)
    /\ f_pc' = "done"
    /\ UNCHANGED <<f_args, mvars, tvars, evars, ivars, svars>>

FilterNext == FilterData

SpecFilter == FilterInit /\ [][FilterNext]_vars

\* ---------------------------------------------------------------------
\* Claims settled on filter_data (SpecFilter)

\* the box's class is the class being scored (Car, Bus and Truck make up
\* Vehicle when superclasses are used)
OfScoredClass(name) ==
    IF f_args.use_superclass /\ f_args.class_name = "Vehicle"
    THEN name \in {"Car", "Bus", "Truck"}
    ELSE name = f_args.class_name

\* the box lies outside the difficulty bucket being scored
OutsideBucket(box) ==
    filter_ignore(<<box>>, f_args.difficulty_mode, f_args.difficulty_level)[1]

FlagsAsClaimed(anno, flag) ==
    /\ DOMAIN flag = DOMAIN anno.name
    /\ \A k \in DOMAIN flag :
          /\ flag[k] \in {-1, 0, 1}
          /\ ~OfScoredClass(anno.name[k]) => flag[k] = -1
          /\ flag[k] = 1 => OfScoredClass(anno.name[k]) /\ OutsideBucket(anno.boxes_3d[k])

\* C2: filter_data flags -1 every ground-truth or predicted box whose class
\* differs from the class being scored, flags 1 only boxes of the scored
\* class that lie outside the difficulty bucket, and every flag is -1, 0 or 1.
C2_FilterFlags ==
    f_pc = "done" =>
        /\ FlagsAsClaimed(f_args.gt_anno, f_ret.gt_flag)
        /\ FlagsAsClaimed(f_args.pred_anno, f_ret.pred_flag)

\* ----------------------------------------------- get_thresholds, one call
\* The scores are those of true positives, so there are no more of them than
\* accepted ground-truth boxes.
ThresholdsInit ==
    /\ t_pc = "call"
    /\ \E num_gt \in 0..MaxNumGt : \E n \in 0..num_gt :
       \E scores \in SeqOfLen(Scores, n), num_pr_points \in 1..MaxPrPoints :
          t_args = [scores |-> scores, num_gt |-> num_gt,
                    num_pr_points |-> num_pr_points]
    /\ t_ret = <<>>
    /\ MatchIdle
    /\ FilterIdle
    /\ EvalIdle
    /\ IouIdle
    /\ SegIdle

\* lines 153-175
GetThresholds ==
    /\ t_pc = "call"
    /\ t_ret' = get_thresholds(t_args.scores, t_args.num_gt, t_args.num_pr_points)
    /\ t_pc' = "done"
    /\ UNCHANGED <<t_args, mvars, fvars, evars, ivars, svars>>

ThresholdsNext == GetThresholds

SpecThresholds == ThresholdsInit /\ [][ThresholdsNext]_vars

\* ---------------------------------------------------------------------
\* Claims settled on get_thresholds (SpecThresholds)

EvalNames == {"Car", "Pedestrian"}

GtXs == {29, 31, 32}

PredXs == {29, 31}

GtAnnos(names, n) ==
    {[name |-> nm, boxes_3d |-> [k \in 1..n |-> BoxAt(xs[k])], score |-> <<>>] :
        nm \in SeqOfLen(names, n), xs \in SeqOfLen(GtXs, n)}

PredAnnos(names, n) ==
    {[name |-> nm, boxes_3d |-> [k \in 1..n |-> BoxAt(xs[k])], score |-> sc] :
        nm \in SeqOfLen(names, n), xs \in SeqOfLen(PredXs, n),
        sc \in SeqOfLen(Scores, n)}

\* one sample of up to two ground-truth boxes and two predictions, or two
\* samples of one Pedestrian box and one Pedestrian prediction each
EvalSamples ==
    {[gt_annos |-> <<g>>, pred_annos |-> <<p>>] :
        g \in UNION {GtAnnos(EvalNames, n) : n \in 0..2},
        p \in UNION {PredAnnos(EvalNames, n) : n \in 0..2}}
    \cup
    {[gt_annos |-> <<g1, g2>>, pred_annos |-> <<p1, p2>>] :
        g1 \in GtAnnos({"Pedestrian"}, 1), g2 \in GtAnnos({"Pedestrian"}, 1),
        p1 \in PredAnnos({"Pedestrian"}, 1), p2 \in PredAnnos({"Pedestrian"}, 1)}

EvalClasses ==
    {[classes |-> <<"Car", "Pedestrian">>, use_superclass |-> FALSE]}

\* one sample of one ground-truth box and one prediction, vehicles included,
\* or a list of one ground-truth sample against two prediction samples
OtherSamples ==
    {[gt_annos |-> <<g>>, pred_annos |-> <<p>>] :
        g \in GtAnnos({"Car", "Bus", "Pedestrian"}, 1),
        p \in PredAnnos({"Car", "Bus", "Pedestrian"}, 1)}
    \cup
    {[gt_annos |-> <<g>>, pred_annos |-> <<p, p>>] :
        g \in GtAnnos({"Pedestrian"}, 1), p \in PredAnnos({"Pedestrian"}, 1)}

\* class lists with superclass grouping (the three vehicle classes all given,
\* none given, one given), and a list with a class that has no IoU threshold
OtherClasses ==
    {[classes |-> <<"Pedestrian", "Car", "Bus", "Truck">>, use_superclass |-> TRUE],
     [classes |-> <<"Pedestrian", "Cyclist">>, use_superclass |-> TRUE],
     [classes |-> <<"Car", "Pedestrian">>, use_superclass |-> TRUE],
     [classes |-> <<"Pedestrian", "Tricycle">>, use_superclass |-> FALSE]}

\* the supported difficulty modes and one that is not
OtherModes == DifficultyModes \cup {"Easy"}

EvalRuns ==
    {[smp |-> smp, cfg |-> cfg, mode |-> mode] :
        smp \in EvalSamples, cfg \in EvalClasses, mode \in DifficultyModes}
    \cup
    {[smp |-> smp, cfg |-> cfg, mode |-> mode] :
        smp \in OtherSamples, cfg \in OtherClasses, mode \in OtherModes}

EvalInit ==
    /\ e_pc = "start"
    /\ \E run \in EvalRuns :
          e_args = [gt_annos |-> run.smp.gt_annos, pred_annos |-> run.smp.pred_annos,
                    classes |-> run.cfg.classes, use_superclass |-> run.cfg.use_superclass,
                    num_pr_points |-> NumPrPoints, difficulty_mode |-> run.mode,
                    ap_with_heading |-> TRUE, num_parts |-> 100]
    /\ e_classes = <<>> /\ e_iou_thresholds = <<>>
    /\ e_ious = <<>> /\ e_cls_idx = 0 /\ e_diff_idx = 0 /\ e_precision = <<>>
    /\ e_recall = <<>> /\ e_pass = <<>> /\ e_AP = <<>> /\ e_ret_dict = <<>>
    /\ e_ret_keys = <<>> /\ e_ret_str = <<>>
    /\ MatchIdle
    /\ FilterIdle
    /\ ThresholdsIdle
    /\ IouIdle
    /\ SegIdle

NumClasses == Len(e_classes)

NumDifficulties == num_difficulties_of(e_args.difficulty_mode)

\* lines 42-46: an assert fails
RaiseAssertionError ==
    /\ e_pc = "start"
    /\ failed_assert(e_args.gt_annos, e_args.pred_annos, e_args.classes,
                     e_args.use_superclass, e_args.difficulty_mode) # "none"
    /\ e_pc' = "AssertionError"
    /\ UNCHANGED <<e_args, e_classes, e_iou_thresholds, e_ious, e_cls_idx, e_diff_idx,
                   e_precision, e_recall, e_pass, e_AP, e_ret_dict, e_ret_keys, e_ret_str,
                   mvars, fvars, tvars, ivars, svars>>

\* lines 36-68: defaults, the class list, the IoU matrices, the arrays
Prepare ==
    /\ e_pc = "start"
    /\ failed_assert(e_args.gt_annos, e_args.pred_annos, e_args.classes,
                     e_args.use_superclass, e_args.difficulty_mode) = "none"
    /\ e_iou_thresholds' = default_iou_thresholds(e_args.use_superclass)
    /\ e_classes' = scored_classes(e_args.classes, e_args.use_superclass)
    /\ e_ious' = compute_iou3d(e_args.gt_annos, e_args.pred_annos,
                               compute_split_parts(Len(e_args.gt_annos), e_args.num_parts),
                               e_args.ap_with_heading)
    /\ e_precision' = zeros_array(Len(e_classes'), NumDifficulties, e_args.num_pr_points)
    /\ e_recall' = zeros_array(Len(e_classes'), NumDifficulties, e_args.num_pr_points)
    /\ e_pass' = [c \in 1..Len(e_classes') |-> [d \in 1..NumDifficulties |-> <<>>]]
    /\ e_cls_idx' = 1
    /\ e_diff_idx' = 1
    /\ e_pc' = "loop"
    /\ e_args' = [e_args EXCEPT !.classes = caller_classes_after(@, e_args.use_superclass)]
    /\ UNCHANGED <<e_AP, e_ret_dict, e_ret_keys, e_ret_str, mvars, fvars, tvars, ivars, svars>>

\* line 71: the class has no entry in iou_thresholds
RaiseKeyError ==
    /\ e_pc = "loop"
    /\ e_cls_idx <= NumClasses
    /\ ~lookup_threshold(e_iou_thresholds, e_classes[e_cls_idx]).found
    /\ e_pc' = "KeyError"
    /\ UNCHANGED <<e_args, e_classes, e_iou_thresholds, e_ious, e_cls_idx, e_diff_idx,
                   e_precision, e_recall, e_pass, e_AP, e_ret_dict, e_ret_keys, e_ret_str,
                   mvars, fvars, tvars, ivars, svars>>

\* lines 70-116: one pass of the loop over classes and difficulty levels
EvalClassDifficulty ==
    /\ e_pc = "loop"
    /\ e_cls_idx <= NumClasses
    /\ lookup_threshold(e_iou_thresholds, e_classes[e_cls_idx]).found
    /\ \E pass \in {class_difficulty_pass(e_args.gt_annos, e_args.pred_annos, e_ious,
                       e_args.difficulty_mode, e_args.use_superclass,
                       e_args.num_pr_points, e_classes[e_cls_idx], e_diff_idx - 1,
                       lookup_threshold(e_iou_thresholds, e_classes[e_cls_idx]).iou_threshold,
                       e_precision[e_cls_idx][e_diff_idx],
                       e_recall[e_cls_idx][e_diff_idx])} :
           /\ e_pass' = [e_pass EXCEPT ![e_cls_idx][e_diff_idx] = pass]
           /\ IF Len(pass.thresholds) > e_args.num_pr_points + 1
              THEN \* lines 107-110: the index is out of bounds
                   /\ e_pc' = "IndexError"
                   /\ UNCHANGED <<e_precision, e_recall, e_cls_idx, e_diff_idx>>
              ELSE /\ e_precision' = [e_precision EXCEPT ![e_cls_idx][e_diff_idx] = pass.precision]
                   /\ e_recall' = [e_recall EXCEPT ![e_cls_idx][e_diff_idx] = pass.recall]
                   /\ e_diff_idx' = IF e_diff_idx < NumDifficulties THEN e_diff_idx + 1 ELSE 1
                   /\ e_cls_idx' = IF e_diff_idx < NumDifficulties THEN e_cls_idx ELSE e_cls_idx + 1
                   /\ e_pc' = "loop"
    /\ UNCHANGED <<e_args, e_classes, e_iou_thresholds, e_ious, e_AP, e_ret_dict,
                   e_ret_keys, e_ret_str, mvars, fvars, tvars, ivars, svars>>

\* lines 118-151: AP, the metrics map, the return
Finish ==
    /\ e_pc = "loop"
    /\ e_cls_idx > NumClasses
    /\ e_AP' = [c \in 1..NumClasses |-> [d \in 1..NumDifficulties |->
                    average_precision(e_precision[c][d], e_args.num_pr_points)]]
    /\ e_ret_dict' = metrics_map(e_AP', e_classes,
                                 difficulty_types_of(e_args.difficulty_mode))
    /\ e_ret_keys' = metrics_keys(e_classes, difficulty_types_of(e_args.difficulty_mode))
    /\ e_ret_str' = report(e_AP', e_classes, difficulty_types_of(e_args.difficulty_mode),
                           e_args.num_pr_points)
    /\ e_pc' = "done"
    /\ UNCHANGED <<e_args, e_classes, e_iou_thresholds, e_ious, e_cls_idx, e_diff_idx,
                   e_precision, e_recall, e_pass, mvars, fvars, tvars, ivars, svars>>

Next == RaiseAssertionError \/ Prepare \/ RaiseKeyError \/ EvalClassDifficulty \/ Finish

Init == EvalInit

Spec == Init /\ [][Next]_vars

\* ------------------------------------------------- the IoU functions
\* Boxes handed to the kernels: two places along x, three heights (the same,
\* 1 m up: half overlapping, 3 m up: apart), two widths, and yaws of 0, 1, 2
\* and 6 quarter turns (6: a yaw of 3 pi, outside [-pi, pi]).
KernelRots == {0, 1, 2, 6}

KernelBoxes ==
    {<<x, 0, z, w, 2, 2, rot>> : x \in {0, 1}, z \in {0, 1, 3}, w \in {2, 4}, rot \in KernelRots}

\* The box lists of one sample handed to compute_iou3d
IouGtBoxes == {<<>>, <<BoxAt(0)>>, <<BoxAt(0), BoxAt(2)>>}

IouPredBoxes == {<<>>, <<BoxAt(1)>>, <<BoxAt(0), BoxAt(1)>>}

AnnoOf(boxes) ==
    [name |-> [k \in DOMAIN boxes |-> "Car"], boxes_3d |-> boxes,
     score |-> [k \in DOMAIN boxes |-> 1]]

\* the divisions of n samples into consecutive parts of at least one sample
SplitParts(n) ==
    {parts \in UNION {[1..k -> 1..n] : k \in 1..n} : SumSeq(parts) = n}

IouInit ==
    /\ i_pc = "call"
    /\ i_ret = <<>>
    /\ \/ /\ i_fn = "compute_iou3d"
          /\ \E n \in 1..MaxIouSamples :
             \E gts \in [1..n -> IouGtBoxes], preds \in [1..n -> IouPredBoxes],
                parts \in SplitParts(n), with_heading \in BOOLEAN :
                i_args = [gt_annos |-> [s \in 1..n |-> AnnoOf(gts[s])],
                          pred_annos |-> [s \in 1..n |-> AnnoOf(preds[s])],
                          split_parts |-> parts, with_heading |-> with_heading]
       \/ /\ i_fn \in {"iou3d_kernel", "iou3d_kernel_with_heading"}
          /\ \E g \in KernelBoxes, p \in KernelBoxes :
                i_args = [gt_boxes |-> <<g>>, pred_boxes |-> <<p>>]
    /\ MatchIdle
    /\ FilterIdle
    /\ ThresholdsIdle
    /\ EvalIdle
    /\ SegIdle

\* lines 384-421
ComputeIou3d ==
    /\ i_fn = "compute_iou3d" /\ i_pc = "call"
    /\ i_ret' = compute_iou3d(i_args.gt_annos, i_args.pred_annos, i_args.split_parts,
                              i_args.with_heading)
    /\ i_pc' = "done"
    /\ UNCHANGED <<i_fn, i_args, mvars, fvars, tvars, evars, svars>>

\* lines 317-345
Iou3dKernel ==
    /\ i_fn = "iou3d_kernel" /\ i_pc = "call"
    /\ i_ret' = iou3d_kernel(i_args.gt_boxes, i_args.pred_boxes)
    /\ i_pc' = "done"
    /\ UNCHANGED <<i_fn, i_args, mvars, fvars, tvars, evars, svars>>

\* lines 347-382
Iou3dKernelWithHeading ==
    /\ i_fn = "iou3d_kernel_with_heading" /\ i_pc = "call"
    /\ i_ret' = iou3d_kernel_with_heading(i_args.gt_boxes, i_args.pred_boxes)
    /\ i_pc' = "done"
    /\ UNCHANGED <<i_fn, i_args, mvars, fvars, tvars, evars, svars>>

IouNext == ComputeIou3d \/ Iou3dKernel \/ Iou3dKernelWithHeading

SpecIou == IouInit /\ [][IouNext]_vars

\* the IoU of one ground-truth/prediction pair of one sample, from the
\* kernel applied to that sample alone
OwnPairIou(s, i, j) ==
    IF i_args.with_heading
    THEN iou3d_kernel_with_heading(i_args.gt_annos[s].boxes_3d, i_args.pred_annos[s].boxes_3d)[i][j]
    ELSE iou3d_kernel(i_args.gt_annos[s].boxes_3d, i_args.pred_annos[s].boxes_3d)[i][j]

\* C12: whatever the division of the samples into consecutive parts,
\* compute_iou3d returns one matrix per sample, in sample order, with one row
\* per ground-truth box and one column per prediction of that sample, holding
\* the kernel IoU of the sample's own pairs; so the result is the same for
\* every num_parts.
C12_PartsDoNotMatter ==
    i_fn = "compute_iou3d" /\ i_pc = "done" =>
        /\ Len(i_ret) = Len(i_args.gt_annos)
        /\ \A s \in DOMAIN i_ret :
              /\ Len(i_ret[s]) = Len(i_args.gt_annos[s].name)
              /\ \A i \in DOMAIN i_ret[s] :
                    /\ Len(i_ret[s][i]) = Len(i_args.pred_annos[s].name)
                    /\ \A j \in DOMAIN i_ret[s][i] : i_ret[s][i][j] = OwnPairIou(s, i, j)
        /\ \A num_parts \in 1..(MaxIouSamples + 1) :
              compute_iou3d(i_args.gt_annos, i_args.pred_annos,
                            compute_split_parts(Len(i_args.gt_annos), num_parts),
                            i_args.with_heading) = i_ret

\* three samples with different numbers of boxes, the last two in one part
C12_Witness ==
    /\ i_fn = "compute_iou3d" /\ i_pc = "done"
    /\ i_args.split_parts = <<1, 2>>
    /\ Len(i_args.gt_annos[2].name) = 1 /\ Len(i_args.pred_annos[2].name) = 2
    /\ Len(i_args.gt_annos[3].name) = 2 /\ Len(i_args.pred_annos[3].name) = 1
    /\ i_ret[3] = <<<<504>>, <<504>>>>

\* the difference of two yaws (in quarter turns) wrapped to [0, pi]
WrappedYawDifference(g, p) ==
    LET turned == Abs(g[7] - p[7]) % 4 IN IF turned > 2 THEN 4 - turned ELSE turned

\* C13: with heading-aware scoring the IoU of a pair is 0 whenever the yaw
\* difference wrapped to [0, pi] exceeds pi / 2, whatever the overlap, and is
\* the IoU of iou3d_kernel otherwise, for every pair of yaw values.
C13_HeadingFilter ==
    i_fn = "iou3d_kernel_with_heading" /\ i_pc = "done" =>
        i_ret[1][1] =
            IF WrappedYawDifference(i_args.gt_boxes[1], i_args.pred_boxes[1]) > 1 THEN 0
            ELSE iou3d_kernel(i_args.gt_boxes, i_args.pred_boxes)[1][1]

\* C20: for boxes with positive extents the IoU of iou3d_kernel lies in
\* [0, 1], and the IoU of a box with an identical copy is 1.
C20_IouRange ==
    i_fn = "iou3d_kernel" /\ i_pc = "done" =>
        /\ 0 <= i_ret[1][1] /\ i_ret[1][1] <= IouScale
        /\ i_args.gt_boxes = i_args.pred_boxes => i_ret[1][1] = IouScale

\* two different boxes that overlap in part, in the plane and in height
C20_Witness ==
    /\ i_fn = "iou3d_kernel" /\ i_pc = "done"
    /\ i_args.gt_boxes[1][1] # i_args.pred_boxes[1][1]
    /\ i_args.gt_boxes[1][3] + 1 = i_args.pred_boxes[1][3]
    /\ 0 < i_ret[1][1] /\ i_ret[1][1] < IouScale

\* ------------------------------------ the segmentation training loop
\* (AutoSeg_VOC12/EntropyOptimizedAttentionNet/main.py, main)

\* the validation scores validate() may return, in thirds
ValScores ==
    {[MeanIoU |-> v, OverallAcc |-> 2, MeanAcc |-> 1] : v \in {0, 1, 2}}

\* the ways os.remove may end (lines 374-383)
RemoveOutcomes == {"removed", "FileNotFoundError", "OSError"}

\* line 367: the path depends on the run only through cur_itrs
latest_path(cur_itrs) == <<"latest", cur_itrs>>

\* lines 369-373 keeping three paths
track_checkpoint_keeps_three(latest_checkpoints, ckpt_path) ==
    LET appended == Append(latest_checkpoints, ckpt_path) IN
    IF Len(appended) > 3
    THEN [latest_checkpoints |-> Tail(appended), oldest_ckpt_path |-> <<Head(appended)>>]
    ELSE [latest_checkpoints |-> appended, oldest_ckpt_path |-> <<>>]

\* lines 369-373: append, then pop(0) if more than 2 are tracked;
\* oldest_ckpt_path is <<>> when nothing is popped
track_checkpoint(latest_checkpoints, ckpt_path) ==
    LET appended == Append(latest_checkpoints, ckpt_path) IN
    IF Len(appended) > 2
    THEN [latest_checkpoints |-> Tail(appended), oldest_ckpt_path |-> <<Head(appended)>>]
    ELSE [latest_checkpoints |-> appended, oldest_ckpt_path |-> <<>>]

\* lines 401-409
final_info_of(val_score) ==
    [mIoU |-> val_score.MeanIoU, OA |-> val_score.OverallAcc, mAcc |-> val_score.MeanIoU]

\* line 415 with == in the place of >=
loop_returns_on_equal(cur_itrs, total_itrs) == cur_itrs = total_itrs

\* line 415
loop_returns(cur_itrs, total_itrs) == cur_itrs >= total_itrs

\* lines 300-318: a fresh run, or one restored with continue_training
Checkpoints ==
    {[restored |-> FALSE, cur_itrs |-> 0, best_score |-> 0]}
    \cup
    {[restored |-> TRUE, cur_itrs |-> c, best_score |-> b] :
        c \in 0..(MaxTotalItrs + 1), b \in {0, 1, 2}}

\* the state at line 339, before the first epoch
SegInit ==
    /\ s_pc = "while"
    /\ \E total_itrs \in 1..MaxTotalItrs, val_interval \in 1..MaxValInterval,
          ckpt \in Checkpoints :
          /\ s_opts = [total_itrs |-> total_itrs, val_interval |-> val_interval, ckpt |-> ckpt]
          /\ s_cur_itrs = ckpt.cur_itrs
          /\ s_best_score = ckpt.best_score
    /\ s_num_batches \in 1..MaxBatches
    /\ s_batch_idx = 0
    /\ s_cur_epochs = 0
    /\ s_latest_checkpoints = <<>> /\ s_saved = <<>> /\ s_removals = <<>>
    /\ s_final_info = <<>>
    /\ MatchIdle
    /\ FilterIdle
    /\ ThresholdsIdle
    /\ EvalIdle
    /\ IouIdle

\* lines 339-343: a new pass over train_loader
StartEpoch ==
    /\ s_pc = "while"
    /\ s_cur_epochs' = s_cur_epochs + 1
    /\ s_batch_idx' = 0
    /\ s_pc' = "for"
    /\ UNCHANGED <<s_opts, s_num_batches, s_cur_itrs, s_best_score, s_latest_checkpoints,
                   s_saved, s_removals, s_final_info, mvars, fvars, tvars, evars, ivars>>

\* lines 413-417 and the end of the for loop
AfterBatch(cur_itrs) ==
    /\ s_batch_idx' = s_batch_idx + 1
    /\ s_pc' = IF loop_returns(cur_itrs, s_opts.total_itrs) THEN "returned"
               ELSE IF s_batch_idx + 1 = s_num_batches THEN "while"
               ELSE "for"

\* lines 344-364, 413-417: a batch on which no validation falls
TrainBatch ==
    /\ s_pc = "for"
    /\ (s_cur_itrs + 1) % s_opts.val_interval # 0
    /\ s_cur_itrs' = s_cur_itrs + 1
    /\ AfterBatch(s_cur_itrs')
    /\ UNCHANGED <<s_opts, s_num_batches, s_cur_epochs, s_best_score, s_latest_checkpoints,
                   s_saved, s_removals, s_final_info, mvars, fvars, tvars, evars, ivars>>

\* lines 344-417: a batch followed by checkpoint, validation and summary
TrainBatchAndValidate ==
    /\ s_pc = "for"
    /\ (s_cur_itrs + 1) % s_opts.val_interval = 0
    /\ s_cur_itrs' = s_cur_itrs + 1
    /\ s_saved' = Append(s_saved, latest_path(s_cur_itrs'))
    /\ \E tracked \in {track_checkpoint(s_latest_checkpoints, latest_path(s_cur_itrs'))} :
          /\ s_latest_checkpoints' = tracked.latest_checkpoints
          /\ IF tracked.oldest_ckpt_path = <<>>
             THEN s_removals' = s_removals
             ELSE \E outcome \in RemoveOutcomes :
                     s_removals' = Append(s_removals, [path |-> tracked.oldest_ckpt_path[1],
                                                       outcome |-> outcome])
    /\ \E val_score \in ValScores :
          IF val_score.MeanIoU > s_best_score
          THEN /\ s_best_score' = val_score.MeanIoU
               /\ s_final_info' = final_info_of(val_score)
          ELSE UNCHANGED <<s_best_score, s_final_info>>
    /\ AfterBatch(s_cur_itrs')
    /\ UNCHANGED <<s_opts, s_num_batches, s_cur_epochs, mvars, fvars, tvars, evars, ivars>>

SegNext == StartEpoch \/ TrainBatch \/ TrainBatchAndValidate

SpecSeg == SegInit /\ [][SegNext]_vars

\* the loop is a sequential program: it takes its next step whenever it has one
SpecSegLive == SegInit /\ [][SegNext]_vars /\ WF_vars(SegNext)

\* C21: a training run that has returned has written final_info.json.
C21_SummaryWritten ==
    s_pc = "returned" => s_final_info # <<>>

\* the last k elements of a sequence
LastOf(seq, k) == SubSeq(seq, Len(seq) - k + 1, Len(seq))

\* C26: the tracked list holds at most 2 paths, the most recently saved ones;
\* every path saved before them has left the list after exactly one removal
\* attempt, in the order of saving, and whatever the outcome of the attempts
\* the loop is not ended by them: it is still running unless it has reached
\* total_itrs.
C26_LatestTwo ==
    s_pc # "idle" =>
        /\ Len(s_latest_checkpoints) <= 2
        /\ s_latest_checkpoints = LastOf(s_saved, Min(2, Len(s_saved)))
        /\ Len(s_removals) = Len(s_saved) - Len(s_latest_checkpoints)
        /\ \A k \in DOMAIN s_removals : s_removals[k].path = s_saved[k]
        /\ s_pc = "returned" => s_cur_itrs >= s_opts.total_itrs

\* a removal has failed, and the loop has gone on to save and track a later
\* checkpoint
C26_Witness ==
    /\ Len(s_removals) = 2
    /\ s_removals[1].outcome = "OSError"
    /\ s_removals[2].outcome = "FileNotFoundError"
    /\ Len(s_saved) = 4
    /\ Len(s_latest_checkpoints) = 2

\* C30: cur_itrs grows by exactly 1 with every batch and not otherwise; the
\* loop returns after a batch exactly when cur_itrs has reached total_itrs,
\* so it returns with cur_itrs = total_itrs, or after a single batch when the
\* restored cur_itrs already met total_itrs; and every run returns.
C30_Terminates ==
    /\ [][/\ s_pc = "for" => s_cur_itrs' = s_cur_itrs + 1
          /\ s_pc # "for" => s_cur_itrs' = s_cur_itrs
          /\ s_pc = "for" => (s_pc' = "returned" <=> s_cur_itrs' >= s_opts.total_itrs)
          /\ s_pc' = "returned" => s_pc \in {"for", "returned"}]_vars
    /\ [](s_pc = "returned" =>
            s_cur_itrs = Max(s_opts.total_itrs, s_opts.ckpt.cur_itrs + 1))
    /\ <>(s_pc = "returned")

\* a run restored beyond total_itrs has returned after one batch
C30_Witness ==
    /\ s_pc = "returned"
    /\ s_opts.ckpt.cur_itrs > s_opts.total_itrs
    /\ s_cur_itrs = s_opts.ckpt.cur_itrs + 1
    /\ s_batch_idx = 1 /\ s_cur_epochs = 1

\* ---------------------------------------------------------------------
\* Claims settled on get_evaluation_results (Spec)

Passed(c, d) == e_pass[c][d] # <<>>

PassedPairs ==
    IF e_pc \in {"loop", "done"}
    THEN {cd \in (1..NumClasses) \X (1..NumDifficulties) : Passed(cd[1], cd[2])}
    ELSE {}

NonIncreasing(curve) ==
    \A t \in 1..(Len(curve) - 1) : FLeq(curve[t + 1], curve[t])

\* C6: after the envelope step the precision array and the recall array of
\* every class and difficulty are non-increasing in threshold index over all
\* num_pr_points + 1 positions.
C6_EnvelopeNonIncreasing ==
    \A cd \in PassedPairs :
        /\ Len(e_precision[cd[1]][cd[2]]) = e_args.num_pr_points + 1
        /\ Len(e_recall[cd[1]][cd[2]]) = e_args.num_pr_points + 1
        /\ NonIncreasing(e_precision[cd[1]][cd[2]])
        /\ NonIncreasing(e_recall[cd[1]][cd[2]])

DifficultyTypes == difficulty_types_of(e_args.difficulty_mode)

\* C7: the reported AP of every class and difficulty is 100 times the sum of
\* the envelope precision at PR points 1..num_pr_points (point 0 left out)
\* divided by num_pr_points.
C7_AveragePrecision ==
    e_pc = "done" =>
        \A c \in 1..NumClasses, d \in 1..NumDifficulties :
            LET points == SubSeq(e_precision[c][d], 2, e_args.num_pr_points + 1) IN
            /\ e_AP[c][d] = FScale(FSumSeq(points), e_args.num_pr_points, 100)
            /\ e_ret_dict[<<e_classes[c], DifficultyTypes[d]>>] = e_AP[c][d]

\* a run ended with an AP strictly between 0 and 100 whose precision at point
\* 0 differs from the precision at the last point
C7_Witness ==
    /\ e_pc = "done"
    /\ \E c \in 1..NumClasses, d \in 1..NumDifficulties :
          /\ ~IsNaN(e_AP[c][d])
          /\ 0 < e_AP[c][d].n /\ e_AP[c][d].n < 100 * e_AP[c][d].d
          /\ e_precision[c][d][1] # e_precision[c][d][e_args.num_pr_points + 1]

InRange0To100(v) == v.d > 0 /\ 0 <= v.n /\ v.n <= 100 * v.d

\* C8: every value of the returned metrics map (each AP_<class>/<difficulty>
\* and each AP_mean/<difficulty>) is a defined number in [0, 100].
C8_MetricsInRange ==
    e_pc = "done" => \A key \in DOMAIN e_ret_dict : InRange0To100(e_ret_dict[key])

\* the predictions of every sample are its ground-truth boxes, with the same
\* class names, and all have one confidence score
PredictionsAreGroundTruth ==
    /\ \A s \in DOMAIN e_args.gt_annos :
          /\ e_args.pred_annos[s].name = e_args.gt_annos[s].name
          /\ e_args.pred_annos[s].boxes_3d = e_args.gt_annos[s].boxes_3d
    /\ \E v \in Scores : \A s \in DOMAIN e_args.pred_annos :
          \A k \in DOMAIN e_args.pred_annos[s].score : e_args.pred_annos[s].score[k] = v

\* C9, for the classes and difficulties that have an accepted ground-truth
\* box at all: when the predictions are exactly the ground-truth boxes with a
\* common confidence score, the reported AP is 100.
C9_PerfectPredictions ==
    e_pc = "done" /\ PredictionsAreGroundTruth =>
        \A c \in 1..NumClasses, d \in 1..NumDifficulties :
            e_pass[c][d].num_valid_gt >= 1 =>
                e_ret_dict[<<e_classes[c], DifficultyTypes[d]>>] = Frac(100, 1)

\* no prediction has an IoU above the threshold of class c with any
\* ground-truth box
NoOverlapAbove(c) ==
    \A s \in DOMAIN e_ious : \A i \in DOMAIN e_ious[s] : \A j \in DOMAIN e_ious[s][i] :
        e_ious[s][i][j] <= e_iou_thresholds[e_classes[c]]

\* C10: if no prediction has an IoU above a class's threshold with any
\* ground-truth box, the AP reported for the class is 0 at every difficulty
\* (also those where it has accepted ground-truth boxes), and at every
\* selected score threshold every accepted ground-truth box is counted a
\* false negative.
C10_NoOverlap ==
    e_pc = "done" =>
        \A c \in 1..NumClasses : NoOverlapAbove(c) =>
            \A d \in 1..NumDifficulties :
                /\ e_AP[c][d] = Zero
                /\ e_ret_dict[<<e_classes[c], DifficultyTypes[d]>>] = Zero
                /\ \A t \in DOMAIN e_pass[c][d].thresholds :
                      e_pass[c][d].confusion_matrix[t][3] = e_pass[c][d].num_valid_gt

\* a run ended for a class that has an accepted ground-truth box, a
\* prediction of the class overlapping it below the threshold, and no pair
\* above it
C10_Witness ==
    /\ e_pc = "done"
    /\ \E c \in 1..NumClasses :
          /\ NoOverlapAbove(c)
          /\ \E d \in 1..NumDifficulties : e_pass[c][d].num_valid_gt >= 1
          /\ \E s \in DOMAIN e_ious : \E i \in DOMAIN e_ious[s] :
             \E j \in DOMAIN e_ious[s][i] :
                /\ e_ious[s][i][j] > 0
                /\ e_args.gt_annos[s].name[i] = e_classes[c]
                /\ e_args.pred_annos[s].name[j] = e_classes[c]

\* the sample list in reverse order: a permutation that moves every sample
\* of a list of two
Reversed(annos) == [s \in DOMAIN annos |-> annos[Len(annos) + 1 - s]]

\* the pass for class c and difficulty d made on the permuted sample lists
PermutedPass(c, d) ==
    class_difficulty_pass(Reversed(e_args.gt_annos), Reversed(e_args.pred_annos),
        compute_iou3d(Reversed(e_args.gt_annos), Reversed(e_args.pred_annos),
                      compute_split_parts(Len(e_args.gt_annos), e_args.num_parts),
                      e_args.ap_with_heading),
        e_args.difficulty_mode, e_args.use_superclass, e_args.num_pr_points,
        e_classes[c], d - 1, e_iou_thresholds[e_classes[c]],
        zeros_array(1, 1, e_args.num_pr_points)[1][1],
        zeros_array(1, 1, e_args.num_pr_points)[1][1])

\* C11: with the same permutation applied to the ground-truth samples and
\* to the prediction samples, every class and difficulty gets the same score
\* thresholds, the same summed TP/FP/FN per threshold and the same curves,
\* hence the same AP, and every mAP is the mean of these same AP values.
C11_SampleOrder ==
    /\ \A cd \in PassedPairs : \A q \in {PermutedPass(cd[1], cd[2])} :
          /\ e_pass[cd[1]][cd[2]].thresholds = q.thresholds
          /\ e_pass[cd[1]][cd[2]].confusion_matrix = q.confusion_matrix
          /\ e_precision[cd[1]][cd[2]] = q.precision
          /\ e_recall[cd[1]][cd[2]] = q.recall
          /\ e_pc = "done" =>
                /\ e_AP[cd[1]][cd[2]] = average_precision(q.precision, e_args.num_pr_points)
                /\ e_ret_dict[<<e_classes[cd[1]], DifficultyTypes[cd[2]]>>] = e_AP[cd[1]][cd[2]]
    /\ e_pc = "done" =>
          \A d \in 1..NumDifficulties :
              e_ret_dict[<<"mean", DifficultyTypes[d]>>] = mean_ap(e_AP, d)

\* a run over two different samples ended with thresholds selected and a
\* sample that has a true positive next to one that has a false negative
C11_Witness ==
    /\ e_pc = "done"
    /\ Len(e_args.gt_annos) = 2
    /\ e_args.gt_annos[1] # e_args.gt_annos[2]
    /\ e_args.pred_annos[1] # e_args.pred_annos[2]
    /\ \E c \in 1..NumClasses, d \in 1..NumDifficulties :
          /\ e_pass[c][d].thresholds # <<>>
          /\ e_pass[c][d].confusion_matrix[1][1] = 1
          /\ e_pass[c][d].confusion_matrix[1][3] = 1

\* a precondition named by the claim does not hold
PreconditionViolated ==
    LET given == {"Car", "Bus", "Truck"} \cap {e_args.classes[k] : k \in DOMAIN e_args.classes} IN
    \/ Len(e_args.gt_annos) # Len(e_args.pred_annos)
    \/ e_args.difficulty_mode \notin {"Overall", "Distance", "Overall&Distance"}
    \/ e_args.use_superclass /\ given # {} /\ given # {"Car", "Bus", "Truck"}

\* C14: a call that violates a precondition (sample counts differ, unknown
\* difficulty mode, superclass grouping with some but not all of Car, Bus,
\* Truck) ends in an assertion error with no IoU matrix, no pass of the loop
\* and no result; every other call gets past the checks, so the superclass
\* check passes when the three classes are all given or all absent.
C14_PreconditionsAbort ==
    /\ e_pc # "start" => (PreconditionViolated <=> e_pc = "AssertionError")
    /\ PreconditionViolated =>
          /\ e_pc \in {"start", "AssertionError"}
          /\ e_ious = <<>> /\ e_pass = <<>> /\ e_precision = <<>> /\ e_recall = <<>>
          /\ e_AP = <<>> /\ e_ret_dict = <<>> /\ e_ret_str = <<>>

\* a call with superclass grouping and Car alone has ended in the assertion
C14_Witness ==
    /\ e_pc = "AssertionError"
    /\ e_args.use_superclass
    /\ e_args.classes = <<"Car", "Pedestrian">>
    /\ Len(e_args.gt_annos) = Len(e_args.pred_annos)
    /\ e_args.difficulty_mode = "Overall"

\* the places of the evaluated classes that have no IoU threshold
MissingThreshold == {c \in DOMAIN e_classes : e_classes[c] \notin DOMAIN e_iou_thresholds}

\* C15: when an evaluated class has no entry in the IoU-threshold map the
\* call never returns a report or a metrics map; the loop does not get past
\* the first such class, where it ends in a lookup error, also when classes
\* before it were scored.
C15_MissingThreshold ==
    e_pc \notin {"start", "AssertionError"} /\ MissingThreshold # {} =>
        /\ e_pc \in {"loop", "KeyError"}
        /\ e_ret_dict = <<>> /\ e_ret_keys = <<>> /\ e_ret_str = <<>>
        /\ \A c \in MissingThreshold : e_cls_idx <= c
        /\ e_pc = "KeyError" => e_cls_idx \in MissingThreshold

\* the lookup failed at the second class after the first was scored with a
\* score threshold selected
C15_Witness ==
    /\ e_pc = "KeyError"
    /\ e_cls_idx = 2
    /\ e_pass[1][1] # <<>>
    /\ e_pass[1][1].thresholds # <<>>
    /\ e_ret_dict = <<>>

\* the caller's classes in the caller's order, with Car, Bus and Truck named
\* Vehicle under superclass grouping and a name kept at its first place
CallerOrder ==
    LET evaluated_name(k) == IF e_args.use_superclass /\ e_args.classes[k] \in {"Car", "Bus", "Truck"}
                             THEN "Vehicle" ELSE e_args.classes[k]
        F[k \in 0..Len(e_args.classes)] ==
            IF k = 0 THEN <<>>
            ELSE LET names == F[k - 1] IN
                 IF \E j \in DOMAIN names : names[j] = evaluated_name(k) THEN names
                 ELSE Append(names, evaluated_name(k))
    IN  F[Len(e_args.classes)]

\* the difficulty types of the mode, as the claims list them
TypesOfMode ==
    CASE e_args.difficulty_mode = "Overall" -> <<"overall">>
      [] e_args.difficulty_mode = "Distance" -> <<"0-30m", "30-50m", "50m-inf">>
      [] e_args.difficulty_mode = "Overall&Distance" -> <<"overall", "0-30m", "30-50m", "50m-inf">>

\* C16: the class rows of the report and the per-class keys of the metrics
\* map follow the caller's class order (the vehicle classes standing for
\* Vehicle under superclass grouping), and the columns follow the order of
\* the difficulty types of the mode.
C16_CallerOrder ==
    e_pc = "done" =>
        \A order \in {CallerOrder} : \A types \in {TypesOfMode} :
            /\ e_ret_str.header.columns = types
            /\ Len(e_ret_str.rows) = Len(order) + 1
            /\ \A r \in DOMAIN order :
                  /\ e_ret_str.rows[r].name = order[r]
                  /\ Len(e_ret_str.rows[r].cells) = Len(types)
            /\ Len(e_ret_keys) = (Len(order) + 1) * Len(types)
            /\ \A r \in DOMAIN order : \A d \in DOMAIN types :
                  e_ret_keys[(r - 1) * Len(types) + d] = <<order[r], types[d]>>

\* C17: the keys of the returned metrics map are exactly the pairs of an
\* evaluated class or "mean" with a difficulty type of the mode, each once.
C17_MetricsKeys ==
    e_pc = "done" =>
        \A types \in {TypesOfMode} :
            /\ DOMAIN e_ret_dict =
                  ({e_classes[c] : c \in DOMAIN e_classes} \cup {"mean"})
                      \X {types[d] : d \in DOMAIN types}
            /\ {e_ret_keys[k] : k \in DOMAIN e_ret_keys} = DOMAIN e_ret_dict
            /\ Len(e_ret_keys) = Cardinality(DOMAIN e_ret_dict)
            /\ Cardinality(DOMAIN e_ret_dict) = (Len(e_classes) + 1) * Len(types)

\* a call with superclass grouping and all four difficulty types has returned
C17_Witness ==
    /\ e_pc = "done"
    /\ e_args.use_superclass
    /\ e_args.difficulty_mode = "Overall&Distance"
    /\ <<"Vehicle", "50m-inf">> \in DOMAIN e_ret_dict
    /\ <<"mean", "overall">> \in DOMAIN e_ret_dict

\* C18: under every difficulty type the value stored for "mean" is the sum of
\* the values stored for the evaluated classes divided by their number (nan
\* as soon as one of them is nan).
C18_MeanOfClasses ==
    e_pc = "done" =>
        \A d \in 1..NumDifficulties :
        \A total \in {FSumSeq([c \in 1..NumClasses |-> e_ret_dict[<<e_classes[c], DifficultyTypes[d]>>]])} :
        \A mean \in {e_ret_dict[<<"mean", DifficultyTypes[d]>>]} :
            /\ IsNaN(mean) <=> \E c \in 1..NumClasses :
                                  IsNaN(e_ret_dict[<<e_classes[c], DifficultyTypes[d]>>])
            /\ ~IsNaN(mean) => mean.n * NumClasses * total.d = total.n * mean.d

\* a call has returned different AP values for two classes, and their mean
C18_Witness ==
    /\ e_pc = "done"
    /\ NumClasses = 2
    /\ \E d \in 1..NumDifficulties :
          /\ e_ret_dict[<<e_classes[1], DifficultyTypes[d]>>] = Frac(100, 1)
          /\ e_ret_dict[<<e_classes[2], DifficultyTypes[d]>>] = Zero
          /\ e_ret_dict[<<"mean", DifficultyTypes[d]>>] = Frac(50, 1)

\* the passes made for a class and difficulty without any accepted
\* ground-truth box
WithoutAcceptedGt == {cd \in PassedPairs : e_pass[cd[1]][cd[2]].num_valid_gt = 0}

\* C19 as stated: where a class has no accepted ground-truth box in a
\* difficulty, score thresholds are selected and the recall computed at them
\* is undefined (0 / 0).
C19_RecallUndefined ==
    \A cd \in WithoutAcceptedGt :
        /\ e_pass[cd[1]][cd[2]].thresholds # <<>>
        /\ \A t \in DOMAIN e_pass[cd[1]][cd[2]].thresholds :
              IsNaN(e_pass[cd[1]][cd[2]].raw_recall[t])

\* C19, amended: where a class has no accepted ground-truth box in a
\* difficulty, no true-positive score is collected, no score threshold is
\* selected, no TP/FP/FN is counted and nothing is divided; precision and
\* recall keep the zeros they were allocated with, and the AP is 0.
C19_NoThresholdNoDivision ==
    \A cd \in WithoutAcceptedGt :
        /\ e_pass[cd[1]][cd[2]].all_scores = <<>>
        /\ e_pass[cd[1]][cd[2]].thresholds = <<>>
        /\ e_pass[cd[1]][cd[2]].confusion_matrix = <<>>
        /\ \A t \in 1..(e_args.num_pr_points + 1) :
              /\ e_recall[cd[1]][cd[2]][t] = Zero
              /\ e_precision[cd[1]][cd[2]][t] = Zero
        /\ e_pc = "done" => e_ret_dict[<<e_classes[cd[1]], DifficultyTypes[cd[2]]>>] = Zero

\* a pass without accepted ground-truth box although a ground-truth box of
\* the class (ignored at this difficulty) overlaps a prediction of the class
\* above the threshold
C19_Witness ==
    \E cd \in WithoutAcceptedGt :
    \E s \in DOMAIN e_ious : \E i \in DOMAIN e_ious[s] : \E j \in DOMAIN e_ious[s][i] :
        /\ e_args.gt_annos[s].name[i] = e_classes[cd[1]]
        /\ e_args.pred_annos[s].name[j] = e_classes[cd[1]]
        /\ e_ious[s][i][j] > e_iou_thresholds[e_classes[cd[1]]]

\* C27: at every selected score threshold of every class and difficulty the
\* summed counts give TP + FP >= 1 and TP + FN >= 1, so neither division of
\* lines 108-109 has a zero denominator.
C27_NoZeroDenominator ==
    \A cd \in PassedPairs : \A t \in DOMAIN e_pass[cd[1]][cd[2]].thresholds :
        /\ e_pass[cd[1]][cd[2]].confusion_matrix[t][1]
              + e_pass[cd[1]][cd[2]].confusion_matrix[t][2] >= 1
        /\ e_pass[cd[1]][cd[2]].confusion_matrix[t][1]
              + e_pass[cd[1]][cd[2]].confusion_matrix[t][3] >= 1

\* C28: for every class and difficulty there are no more true-positive
\* scores than accepted ground-truth boxes, and at most num_pr_points + 1
\* score thresholds, in non-increasing order, each one of the accumulated
\* scores; no pass ends in an index error.
C28_WithinBounds ==
    /\ e_pc # "IndexError"
    /\ \A cd \in PassedPairs :
          /\ Len(e_pass[cd[1]][cd[2]].all_scores) <= e_pass[cd[1]][cd[2]].num_valid_gt
          /\ Len(e_pass[cd[1]][cd[2]].thresholds) <= e_args.num_pr_points + 1
          /\ \A t \in DOMAIN e_pass[cd[1]][cd[2]].thresholds :
                /\ \E k \in DOMAIN e_pass[cd[1]][cd[2]].all_scores :
                      e_pass[cd[1]][cd[2]].all_scores[k] = e_pass[cd[1]][cd[2]].thresholds[t]
                /\ t > 1 => e_pass[cd[1]][cd[2]].thresholds[t]
                                <= e_pass[cd[1]][cd[2]].thresholds[t - 1]

\* a pass with two accepted boxes, two true-positive scores that differ and
\* num_pr_points + 1 thresholds, both scores among them
C28_Witness ==
    \E cd \in PassedPairs :
        /\ e_pass[cd[1]][cd[2]].num_valid_gt = 2
        /\ Len(e_pass[cd[1]][cd[2]].all_scores) = 2
        /\ Len(e_pass[cd[1]][cd[2]].thresholds) = e_args.num_pr_points + 1
        /\ e_pass[cd[1]][cd[2]].thresholds[1]
              > e_pass[cd[1]][cd[2]].thresholds[e_args.num_pr_points + 1]

NotVehicle(class_name) == class_name \notin {"Car", "Bus", "Truck"}

\* C29: under superclass grouping the scored classes are Vehicle followed by
\* the caller's classes other than Car, Bus and Truck in their order, also
\* when the caller gave none of the three; the caller's list keeps its
\* elements throughout the call.
C29_VehicleFirst ==
    /\ [](e_pc \in {"loop", "KeyError", "IndexError", "done"} /\ e_args.use_superclass
            => e_classes = <<"Vehicle">> \o SelectSeq(e_args.classes, NotVehicle))
    /\ [][e_pc # "idle" => e_args'.classes = e_args.classes]_vars

\* the loop runs over Vehicle, Pedestrian, Cyclist for a caller who gave
\* Pedestrian and Cyclist only
C29_Witness ==
    /\ e_pc = "loop"
    /\ e_args.use_superclass
    /\ e_args.classes = <<"Pedestrian", "Cyclist">>
    /\ e_classes = <<"Vehicle", "Pedestrian", "Cyclist">>

\* ---------------------------------------------------------------------
\* Claims settled on the matching passes (SpecMatch)

MatchedRows == {i \in DOMAIN m_st.det : m_st.det[i] # -1}

RowsOf(j) == {i \in DOMAIN m_st.det : m_st.det[i] = j}

\* C1: in accumulate_scores and in compute_statistics the assignment made
\* within one call is one-to-one: a ground-truth box is given at most one
\* prediction (an index of the prediction vector, or none), and a prediction
\* is given to at most one ground-truth box; the predictions marked assigned
\* are exactly the ones given to a box.
C1_OneToOne ==
    /\ Len(m_st.det) = Len(m_gt_flag)
    /\ \A i \in DOMAIN m_st.det : m_st.det[i] \in {-1} \cup DOMAIN m_pred_scores
    /\ \A j \in DOMAIN m_pred_scores :
          /\ Cardinality(RowsOf(j)) <= 1
          /\ m_st.assigned[j] <=> RowsOf(j) # {}

\* two boxes were matched, the later one to another prediction although its
\* IoU with the prediction the earlier one took is above the threshold
C1_Witness ==
    /\ m_pc = "done"
    /\ Len(m_st.det) >= 2
    /\ LET n == Len(m_st.det) IN
          /\ m_st.det[n] # -1 /\ m_st.det[n - 1] # -1
          /\ m_iou[m_st.det[n - 1]] > m_iou_threshold
          /\ m_pred_scores[m_st.det[n - 1]] >= m_pred_scores[m_st.det[n]]

RowStep == Len(m_gt_flag') = Len(m_gt_flag) + 1

Unassigned(st) == {j \in DOMAIN m_pred_scores : ~st.assigned[j]}

\* C3: a rejected (-1) ground-truth box is never matched and never counted
\* as TP or FN (its row changes nothing but the row counter); a rejected
\* prediction is never assigned to a box, and the FP count takes in no more
\* than the unassigned predictions that are not rejected.
C3_RejectedExcluded ==
    /\ [](\A i \in DOMAIN m_st.det : m_gt_flag[i] = -1 => m_st.det[i] = -1)
    /\ [](\A j \in DOMAIN m_pred_flag : m_pred_flag[j] = -1 => ~m_st.assigned[j])
    /\ [][RowStep /\ m_gt_flag'[Len(m_gt_flag')] = -1
            => m_st' = [m_st EXCEPT !.det = Append(@, -1)]]_vars
    /\ [][m_fn = "compute_statistics" /\ m_pc' = "done"
            => /\ m_st'.fp - m_st.fp <=
                    Cardinality({j \in Unassigned(m_st) : m_pred_flag[j] # -1})
               /\ m_st'.tp = m_st.tp /\ m_st'.fn = m_st.fn]_vars

\* compute_statistics returned after a rejected row whose IoU with a free
\* accepted prediction at or above the score threshold was over the IoU
\* threshold, and a rejected top-score prediction overlapped an accepted row
C3_Witness ==
    /\ m_pc = "done" /\ m_fn = "compute_statistics"
    /\ Len(m_gt_flag) >= 2
    /\ m_gt_flag[Len(m_gt_flag)] = -1
    /\ m_gt_flag[1] = 0 /\ m_st.det[1] = -1
    /\ \E j \in DOMAIN m_pred_scores :
          /\ m_pred_flag[j] = 0 /\ ~m_st.assigned[j]
          /\ m_pred_scores[j] >= m_score_threshold
          /\ m_iou[j] > m_iou_threshold
    /\ \E j \in DOMAIN m_pred_scores :
          /\ m_pred_flag[j] = -1 /\ m_pred_scores[j] >= m_score_threshold
          /\ m_iou[j] > m_iou_threshold

IgnoredMatch(i) ==
    /\ m_st.det[i] # -1
    /\ (m_gt_flag[i] = 1 \/ m_pred_flag[m_st.det[i]] = 1)

AcceptedMatch(i) ==
    /\ m_st.det[i] # -1
    /\ m_gt_flag[i] = 0 /\ m_pred_flag[m_st.det[i]] = 0

\* C4: a match whose ground-truth box or prediction is ignored (1) marks the
\* prediction assigned and adds nothing to TP, FP or FN: TP counts exactly the
\* matches of an accepted box with an accepted prediction, FN exactly the
\* unmatched accepted boxes (so no unmatched ignored box), FP no assigned
\* prediction; and accumulate_scores lists one score per match of an
\* accepted box with an accepted prediction, none for an ignored match.
C4_IgnoredMatches ==
    /\ \A i \in DOMAIN m_st.det : IgnoredMatch(i) => m_st.assigned[m_st.det[i]]
    /\ m_fn = "compute_statistics" =>
          /\ m_st.tp = Cardinality({i \in DOMAIN m_st.det : AcceptedMatch(i)})
          /\ m_st.fn = Cardinality({i \in DOMAIN m_st.det :
                                       m_gt_flag[i] = 0 /\ m_st.det[i] = -1})
          /\ m_st.fp <= Cardinality(Unassigned(m_st))
    /\ m_fn = "accumulate_scores" =>
          Len(m_st.accum_scores) =
              Cardinality({i \in DOMAIN m_st.det : AcceptedMatch(i)})

\* compute_statistics returned with an ignored box matched to an accepted
\* prediction and an accepted box matched to an ignored prediction
C4_Witness ==
    /\ m_pc = "done" /\ m_fn = "compute_statistics"
    /\ \E i \in DOMAIN m_st.det :
          IgnoredMatch(i) /\ m_gt_flag[i] = 1 /\ m_pred_flag[m_st.det[i]] = 0
    /\ \E i \in DOMAIN m_st.det :
          IgnoredMatch(i) /\ m_gt_flag[i] = 0 /\ m_pred_flag[m_st.det[i]] = 1
    /\ m_st.tp = 0 /\ m_st.fp = 0 /\ m_st.fn = 0

\* the number of the row a row step adds
NewRow == Len(m_gt_flag')

\* the predictions a row step may pick for the new row: unassigned before the
\* step, not rejected, with an IoU above the threshold (and, in
\* compute_statistics, a score at or above the score threshold)
Candidates ==
    {j \in Unassigned(m_st) :
        /\ m_pred_flag[j] # -1
        /\ m_iou'[j] > m_iou_threshold
        /\ m_fn = "compute_statistics" => m_pred_scores[j] >= m_score_threshold}

\* the candidate of the highest score, the lowest index among equal scores
\* (-1 if there is no candidate)
HighestScore(candidates) ==
    IF candidates = {} THEN -1
    ELSE CHOOSE j \in candidates : \A k \in candidates :
            \/ m_pred_scores[k] < m_pred_scores[j]
            \/ m_pred_scores[k] = m_pred_scores[j] /\ j <= k

\* the candidate of the highest IoU with the new row, the lowest index among
\* equal IoUs (-1 if there is no candidate)
HighestIou(candidates) ==
    IF candidates = {} THEN -1
    ELSE CHOOSE j \in candidates : \A k \in candidates :
            \/ m_iou'[k] < m_iou'[j]
            \/ m_iou'[k] = m_iou'[j] /\ j <= k

LowestIndex(candidates) ==
    IF candidates = {} THEN -1
    ELSE CHOOSE j \in candidates : \A k \in candidates : j <= k

AcceptedOf(candidates) == {j \in candidates : m_pred_flag[j] = 0}

\* C22 as stated: compute_statistics gives every non-rejected row the
\* candidate of the highest score, the first found on a tie, as
\* accumulate_scores does.
C22_HighestScore ==
    [][m_fn = "compute_statistics" /\ RowStep /\ m_gt_flag'[NewRow] # -1
         => m_st'.det[NewRow] = HighestScore(Candidates)]_vars

\* C22, amended: compute_statistics gives every non-rejected row the
\* accepted candidate of the highest IoU (the lowest index on an IoU tie),
\* and when no candidate is accepted the ignored candidate of the lowest
\* index; the score only decides through the score threshold who is a
\* candidate.
C22_HighestIou ==
    [][m_fn = "compute_statistics" /\ RowStep /\ m_gt_flag'[NewRow] # -1
         => /\ m_st'.det[NewRow] =
                  IF AcceptedOf(Candidates) # {} THEN HighestIou(AcceptedOf(Candidates))
                  ELSE LowestIndex(Candidates)
            /\ \A j \in DOMAIN m_pred_scores :
                  m_st'.assigned[j] <=> (m_st.assigned[j] \/ j = m_st'.det[NewRow])]_vars

\* compute_statistics gave the last row an accepted prediction although a
\* free accepted candidate of a higher score and a lower IoU came before it
C22_Witness ==
    /\ m_fn = "compute_statistics"
    /\ Len(m_gt_flag) >= 1
    /\ m_gt_flag[Len(m_gt_flag)] = 0
    /\ m_st.det[Len(m_gt_flag)] # -1
    /\ \E k \in DOMAIN m_pred_scores :
          /\ k < m_st.det[Len(m_gt_flag)]
          /\ m_pred_flag[k] = 0 /\ ~m_st.assigned[k]
          /\ m_pred_scores[k] > m_pred_scores[m_st.det[Len(m_gt_flag)]]
          /\ m_pred_scores[m_st.det[Len(m_gt_flag)]] >= m_score_threshold
          /\ m_iou[k] > m_iou_threshold
          /\ m_iou[k] < m_iou[m_st.det[Len(m_gt_flag)]]

\* the scores of the matches made so far of an accepted box with an accepted
\* prediction, in the order of the boxes
ScoresOfAcceptedMatches ==
    LET F[i \in 0..Len(m_st.det)] ==
            IF i = 0 THEN <<>>
            ELSE LET before == F[i - 1] IN
                 IF AcceptedMatch(i) THEN Append(before, m_pred_scores[m_st.det[i]])
                 ELSE before
    IN  F[Len(m_st.det)]

\* C23: accumulate_scores gives every non-rejected row the candidate of the
\* strictly highest score, the lowest index on a tie, and marks it assigned;
\* the score list holds exactly the scores of the matches of an accepted box
\* with an accepted prediction.
C23_AccumulateGreedy ==
    /\ [][m_fn = "accumulate_scores" /\ RowStep /\ m_gt_flag'[NewRow] # -1
            => /\ m_st'.det[NewRow] = HighestScore(Candidates)
               /\ \A j \in DOMAIN m_pred_scores :
                     m_st'.assigned[j] <=> (m_st.assigned[j] \/ j = m_st'.det[NewRow])]_vars
    /\ [](m_fn = "accumulate_scores" => m_st.accum_scores = ScoresOfAcceptedMatches)

\* accumulate_scores returned after the last row took the first of two free
\* candidates of one score, the second having the higher IoU
C23_Witness ==
    /\ m_fn = "accumulate_scores" /\ m_pc = "done"
    /\ Len(m_gt_flag) >= 2
    /\ m_gt_flag[Len(m_gt_flag)] = 0
    /\ m_st.det[Len(m_gt_flag)] # -1
    /\ m_pred_flag[m_st.det[Len(m_gt_flag)]] = 0
    /\ \E k \in DOMAIN m_pred_scores :
          /\ k > m_st.det[Len(m_gt_flag)]
          /\ m_pred_flag[k] = 0 /\ ~m_st.assigned[k]
          /\ m_pred_scores[k] = m_pred_scores[m_st.det[Len(m_gt_flag)]]
          /\ m_iou[k] > m_iou[m_st.det[Len(m_gt_flag)]]
    /\ Len(m_st.accum_scores) = 1

\* C24: compute_statistics returns as FP the number of predictions that are
\* unassigned after the matching, accepted and at or above the score
\* threshold; nothing is counted before the matching is over.
C24_FalsePositives ==
    m_fn = "compute_statistics" =>
        /\ m_pc = "loop" => m_st.fp = 0
        /\ m_pc = "done" =>
              m_st.fp = Cardinality({j \in Unassigned(m_st) :
                            m_pred_flag[j] = 0 /\ m_pred_scores[j] >= m_score_threshold})

\* compute_statistics returned one false positive, leaving also an ignored,
\* a rejected and a below-threshold prediction unassigned
C24_Witness ==
    /\ m_fn = "compute_statistics" /\ m_pc = "done"
    /\ m_st.fp = 1
    /\ \E j \in Unassigned(m_st) : m_pred_flag[j] = 1 /\ m_pred_scores[j] >= m_score_threshold
    /\ \E j \in Unassigned(m_st) : m_pred_flag[j] = -1 /\ m_pred_scores[j] >= m_score_threshold
    /\ \E j \in Unassigned(m_st) : m_pred_flag[j] = 0 /\ m_pred_scores[j] < m_score_threshold

\* the accepted detections, at or above the score threshold, that an ignored
\* ground-truth box holds and whose IoU with the new row is above the
\* threshold
HeldByIgnoredBox ==
    {j \in DOMAIN m_pred_scores :
        /\ m_pred_flag[j] = 0
        /\ m_pred_scores[j] >= m_score_threshold
        /\ m_iou'[j] > m_iou_threshold
        /\ \E r \in DOMAIN m_st.det : m_st.det[r] = j /\ m_gt_flag[r] = 1}

\* C25 as stated: when an accepted row finds its match only in a detection
\* held by an ignored ground-truth box, the detection goes over to the
\* accepted row.
C25_DetectionReassigned ==
    [][(/\ m_fn = "compute_statistics" /\ RowStep /\ m_gt_flag'[NewRow] = 0
        /\ Candidates = {} /\ HeldByIgnoredBox # {})
         => m_st'.det[NewRow] \in HeldByIgnoredBox]_vars

\* C25, amended: what is replaced is the tentative choice within the scan of
\* one row: a row that has an accepted candidate ends with an accepted
\* prediction also when an ignored candidate came first in the scan; the
\* assignment of a finished row is never changed, so a detection held by an
\* ignored ground-truth box is given to no later row.
C25_ScanPrefersAccepted ==
    [][m_fn = "compute_statistics" /\ RowStep
         => /\ m_gt_flag'[NewRow] # -1 /\ AcceptedOf(Candidates) # {}
                  => m_st'.det[NewRow] \in AcceptedOf(Candidates)
            /\ \A r \in DOMAIN m_st.det : m_st'.det[r] = m_st.det[r]
            /\ m_st'.det[NewRow] \notin HeldByIgnoredBox]_vars

\* an accepted row was left without a match although an earlier, ignored
\* row holds an accepted detection, at or above the score threshold, whose
\* IoU with the accepted row is above the threshold
C25_Witness ==
    /\ m_fn = "compute_statistics"
    /\ Len(m_gt_flag) >= 2
    /\ m_gt_flag[Len(m_gt_flag)] = 0
    /\ m_st.det[Len(m_gt_flag)] = -1
    /\ m_st.fn >= 1
    /\ \E r \in 1..(Len(m_gt_flag) - 1) :
          /\ m_gt_flag[r] = 1 /\ m_st.det[r] # -1
          /\ m_pred_flag[m_st.det[r]] = 0
          /\ m_pred_scores[m_st.det[r]] >= m_score_threshold
          /\ m_iou[m_st.det[r]] > m_iou_threshold

====
